---- MODULE Spec2Model ----
(***************************************************************************)
(* Model of the request-lifecycle engine of antigravity-code.              *)
(*                                                                         *)
(* Part 1: APIOrchestrator (api/orchestrator.js): initialize/loadProvider, *)
(* sendMessage with retry, backoff and failover, switchProvider and the    *)
(* periodic health check.  JavaScript runs each handler to completion      *)
(* between two awaits, so every action below is the code from one          *)
(* suspension point (await) to the next.                                   *)
(*                                                                         *)
(* Part 2: AntigravityEngine (core/engine.js): processRequest and the      *)
(* tool-execution loop, with FileSystemTools, CheckpointManager,           *)
(* PermissionManager, ContextManager and the prompts of UIManager.         *)
(***************************************************************************)
EXTENDS Integers, Sequences, FiniteSets, TLC

\* ------------------------------------------------------------------------
\* Bounds of the model
\* ------------------------------------------------------------------------
MaxRetriesBound == 3
MaxCalls == 1
\* the smaller retry budget of the specification with health checks
MaxHealthRetries == 2
MaxTicks == 2
\* tool-calling rounds of one turn, tool calls of one response, tool calls
\* of one turn, /mode commands given while a turn is in progress
MaxRounds == 2
MaxToolCalls == 3
MaxTurnCalls == 3
MaxModeChanges == 1
\* checkpoints created and days passed in the specification of the
\* checkpoint manager
MaxCheckpoints == 2
MaxDays == 2
\* calls of the permission manager in its own specification
MaxModeOps == 6
\* messages appended in the specification of the context manager
MaxAppends == 3
\* segments of a path handed to a file tool
MaxSegments == 2
\* health-check ticks when /provider commands are given as well
MaxMixedTicks == 1
\* steps in a plan of the planner
MaxPlan == 2

\* ------------------------------------------------------------------------
\* Configuration (core/config.js)
\* ------------------------------------------------------------------------
\* [primary, secondary, tertiary] as ConfigManager.load can produce them:
\* the default order, the order written by the setup script when only the
\* claude key is configured (primary = secondary), and an order with local
\* ollama first and an unknown name last (only primary is validated).
Configs ==
    { <<"gemini", "claude", "openai">>,
      <<"claude", "claude", "openai">>,
      <<"ollama", "gemini", "mistral">> }

\* the cases of the switch in loadProvider
KnownProviders == {"gemini", "claude", "openai", "ollama"}

Names == UNION { { c[i] : i \in 1..Len(c) } : c \in Configs }

\* retryDelayMs values: the default and a larger configured one
DefaultRetryDelayMs == 1000
BaseDelays == {DefaultRetryDelayMs, 8000}

\* what secureStorage.getApiKey / provider.initialize do for a name:
\* "ok" a key is stored and initialize succeeds, "nokey" getApiKey returns
\* null, "fail" getApiKey or the constructor or initialize throws
CredStates == {"ok", "nokey", "fail"}

\* the environments explored per name (two of the three states each, so
\* that every path of loadProvider is taken by some name)
CredOptions(name) ==
    CASE name = "gemini" -> {"ok", "nokey"}
      [] name = "claude" -> {"ok", "fail"}
      [] name = "openai" -> {"ok", "nokey"}
      [] name = "ollama" -> {"nokey", "fail"}
      [] OTHER -> {"ok"}

Undefined == "undefined"
NoResult == [kind |-> "none"]

VARIABLES
    phase,              \* "new" | "ready" | "failed" (initialize threw)
    cred,               \* environment: credential / initialization per name
    providerOrder,      \* this.providerOrder
    maxRetries,         \* config.failover.maxRetriesPerProvider
    retryDelayMs,       \* config.failover.retryDelayMs
    providers,          \* keys of this.providers
    currentProvider,    \* this.currentProvider
    healthy,            \* provider.healthy per name
    lastHealthCheck,    \* provider.lastHealthCheck per name (0 = null)
    apiLogs,            \* rows of table api_logs
    failoverEvents,     \* rows of table failover_events
    pc,                 \* position of the sendMessage call in flight
    slot,               \* index into providerOrder of the outer loop
    attempt,            \* inner loop counter
    attemptedProviders, \* local attemptedProviders
    lastError,          \* local lastError (its message)
    response,           \* local response
    delay,              \* argument of the last this.sleep(delay)
    result,             \* what the last sendMessage call returned or threw
    hcPos,              \* position of the health-check callback (0 = idle)
    lastSwitch,         \* outcome of the last switchProvider call
    callCount,          \* number of sendMessage calls started
    tickCount,          \* number of health-check ticks started
    tickLimit,          \* health-check ticks explored (0: timer not started)
    startCurrent,       \* history: currentProvider when the call started
    issued,             \* history: backend sends issued per slot, this call
    failed,             \* history: backend failures seen per slot, this call
    inFlight,           \* history: backend sends awaiting an answer
    lastBackend,        \* history: the last answer a backend gave
    rowsBefore,         \* history: Len(apiLogs) when the call started
    eventsBefore,       \* history: Len(failoverEvents) when the call started
    seenCurrent,        \* history: this.currentProvider as read after the
                        \* success row was written (line 439)
    switchedInCall,     \* history: switchProvider was accepted since the
                        \* call started
    tickedAt            \* history: the positions of the call in flight at
                        \* which a health-check step was taken

VARIABLES
    mode,               \* permissionManager.mode
    jsonMode,           \* ui.jsonMode (--json on the command line)
    epc,                \* position of processRequest
    message,            \* first argument of the _executeWithTools running
    rounds,             \* responses with tool calls received this turn
    toolCount,          \* tool calls received this turn
    toolCalls,          \* response.toolCalls of the current round
    queue,              \* indices of toolCalls in the order they are handled
    qpos,               \* position in queue of the call being handled
    batch,              \* _executeBatchWrite: which loop is running
    batchMode,          \* local mode of _executeBatchWrite (line 217)
    batchAnswer,        \* what the user typed at the batch prompt
    results,            \* local results of _executeBatchWrite (line 250)
    skipConfirmation,   \* third argument of the writeFile call in flight
    toolResult,         \* result to be passed to addToolResultMessage
    messages,           \* rows of table messages of the conversation
    fs,                 \* content of the files under the base directory
    checkpoints,        \* rows of table checkpoints
    turnResult,         \* what processRequest returned or threw
    prompts,            \* history: the prompts shown to the user
    started,            \* history: ids of the tool calls whose execution
                        \* was started, in order
    modeChanges,        \* number of /mode commands given during the turn
    savedMode,          \* config value `permissionMode`
    cpNext,             \* the id the next stored checkpoint gets
    cpCall,             \* history: id of the tool call whose writeFile
                        \* stored the newest checkpoint (0: none)
    cpPre,              \* history: by checkpoint id, what the file was when
                        \* createCheckpoint was called
    clock,              \* Date.now(), in hours
    opResult            \* what the last direct call of CheckpointManager,
                        \* PermissionManager or ContextManager returned

VARIABLES
    execMode,           \* config value `execution.mode`
    plan,               \* local plan of AgentOrchestrator.execute
    apc,                \* position of AgentOrchestrator.execute
    stepIdx,            \* index in plan of the step of the for loop
    attempts,           \* local attempts of execute
    workflow,           \* what execute returned or threw
    cpc,                \* position of coder.act
    retries,            \* local retries of executeWithRetry
    actResult,          \* local result of executeWithRetry, then what
                        \* coder.act returned
    executed,           \* history: the commands handed to execAsync
    coderRuns,          \* history: calls of coder.act per step
    rejections,         \* history: reviews not approved per step
    approved            \* history: steps the reviewer approved

permVars == <<mode, jsonMode, modeChanges, savedMode>>
loopVars == <<epc, message, rounds, toolCount, toolCalls, queue, qpos, batch,
              batchMode, batchAnswer, results, skipConfirmation, toolResult,
              turnResult>>
storeVars == <<messages, fs, checkpoints>>
engHist == <<prompts, started>>
apiVars == <<clock, opResult>>
cpVars == <<cpNext, cpCall, cpPre>>
agentVars == <<execMode, plan, apc, stepIdx, attempts, workflow, cpc, retries,
               actResult, executed, coderRuns, rejections, approved>>
engOnly == <<permVars, loopVars, storeVars, engHist, cpVars, apiVars>>
engVars == <<engOnly, agentVars>>

cfgVars == <<cred, providerOrder, maxRetries, retryDelayMs, tickLimit>>
orchVars == <<phase, providers, currentProvider>>
healthVars == <<healthy, lastHealthCheck, hcPos, tickCount>>
logVars == <<apiLogs, failoverEvents>>
sendVars == <<pc, slot, attempt, attemptedProviders, lastError, response,
              delay, result, callCount>>
histVars == <<startCurrent, issued, failed, inFlight, lastBackend, rowsBefore,
             eventsBefore, seenCurrent>>
orchOnly == <<cfgVars, orchVars, healthVars, logVars, sendVars, histVars,
              lastSwitch, switchedInCall, tickedAt>>
orchState == <<orchOnly, agentVars>>
vars == <<orchState, engVars>>

Slots == 1..3
ZeroPerSlot == [s \in Slots |-> 0]

\* ------------------------------------------------------------------------
\* Helpers
\* ------------------------------------------------------------------------
RECURSIVE Pow2(_)
Pow2(n) == IF n <= 0 THEN 1 ELSE 2 * Pow2(n - 1)

\* mutant: the first configured name is taken, loaded or not
FindFromFirst(order, provs, s) ==
    IF s > Len(order) \/ provs = {} THEN 0 ELSE s

\* Array.prototype.find over providerOrder from index s: the first index
\* whose name is a key of provs, 0 when there is none
RECURSIVE FindFrom(_, _, _)
FindFrom(order, provs, s) ==
    IF s > Len(order) THEN 0
    ELSE IF order[s] \in provs THEN s
    ELSE FindFrom(order, provs, s + 1)

\* keys of the Map this.providers in insertion order
RECURSIVE MapKeys(_, _, _)
MapKeys(order, provs, s) ==
    IF s > Len(order) THEN <<>>
    ELSE LET rest == MapKeys(order, provs, s + 1)
             seen == \E t \in 1..(s - 1) : order[t] = order[s]
         IN  IF order[s] \in provs /\ ~seen THEN <<order[s]>> \o rest
             ELSE rest

\* ------------------------------------------------------------------------
\* initialize / loadProvider
\* ------------------------------------------------------------------------
\* loadProvider(name): the set of keys of this.providers afterwards.  It
\* returns early without a key (except for ollama), throws for an unknown
\* name or a failing initialize; initialize catches what it throws.
loadProvider(provs, name) ==
    IF cred[name] = "fail" THEN provs
    ELSE IF cred[name] = "nokey" /\ name # "ollama" THEN provs
    ELSE IF name \notin KnownProviders THEN provs
    ELSE provs \cup {name}

\* mutant: the first provider that cannot be loaded ends the loading
RECURSIVE LoadAllAbort(_, _, _)
LoadAllAbort(order, provs, s) ==
    IF s > Len(order) THEN provs
    ELSE IF loadProvider(provs, order[s]) = provs /\ order[s] \notin provs
    THEN provs
    ELSE LoadAllAbort(order, loadProvider(provs, order[s]), s + 1)

RECURSIVE LoadAll(_, _, _)
LoadAll(order, provs, s) ==
    IF s > Len(order) THEN provs
    ELSE LoadAll(order, loadProvider(provs, order[s]), s + 1)

\* provider.healthy after the constructor and initialize(): the vendor
\* providers set it, OllamaProvider.initialize does not
InitialHealthy(name) == name # "ollama"

Initialize ==
    /\ phase = "new"
    /\ LET provs == LoadAll(providerOrder, {}, 1)
           first == FindFrom(providerOrder, provs, 1)
       IN  /\ providers' = provs
           /\ currentProvider' =
                 IF first = 0 THEN Undefined ELSE providerOrder[first]
           /\ phase' = IF first = 0 THEN "failed" ELSE "ready"
           /\ healthy' = [n \in Names |-> n \in provs /\ InitialHealthy(n)]
    /\ UNCHANGED <<cfgVars, lastHealthCheck, hcPos, tickCount, logVars,
                   sendVars, histVars, lastSwitch, switchedInCall>>
    /\ UNCHANGED <<tickedAt, engVars>>

\* ------------------------------------------------------------------------
\* switchProvider
\* ------------------------------------------------------------------------
\* mutant: the availability check is missing
SwitchProviderUnchecked(name) ==
    /\ phase = "ready"
    /\ lastSwitch' = "ok"
    /\ currentProvider' = name
    /\ switchedInCall' = TRUE
    /\ UNCHANGED <<cfgVars, phase, providers, healthVars, logVars, sendVars,
                   histVars, tickedAt, engVars>>

SwitchProvider(name) ==
    /\ phase = "ready"
    /\ IF name \notin providers
       THEN /\ lastSwitch' = "error"
            /\ UNCHANGED <<currentProvider, switchedInCall>>
       ELSE /\ lastSwitch' = "ok"
            /\ currentProvider' = name
            /\ switchedInCall' = TRUE
    /\ UNCHANGED <<cfgVars, phase, providers, healthVars, logVars, sendVars,
                   histVars, tickedAt, engVars>>

\* ------------------------------------------------------------------------
\* sendMessage
\* ------------------------------------------------------------------------
NoResponse == [provider |-> Undefined, success |-> FALSE]

\* what the awaited provider.sendMessage can do besides resolving with a
\* success response: resolve with {success:false, error:{message}} or
\* reject (throw)
FailureKinds == {"soft", "throw"}

\* error.message in the catch block: a soft failure is rethrown as
\* new Error(response.error?.message || 'Provider returned failure response')
ErrorMessage(kind) ==
    CASE kind = "soft" -> "rate limit exceeded"
      [] kind = "throw" -> "network error"

\* mutant: every row is written as a success
ApiRowAlwaysOk(name, ok) ==
    [provider |-> name, success |-> TRUE, statusCode |-> 200]

\* the argument of database.logAPICall; a thrown error or the Error built
\* for a soft failure has no status, so statusCode is error.status || 500
ApiRow(name, ok) ==
    [provider |-> name, success |-> ok,
     statusCode |-> IF ok THEN 200 ELSE 500]

\* mutant: the message reports the attempted list without the last error
AggregateErrorNoLast(attempted, msg) ==
    [kind |-> "error", attempted |-> attempted, lastError |-> Undefined]

\* the Error thrown after the outer loop; the text is
\* `All API providers failed. Attempted: ${join(', ')}. Last error: ${msg}`
AggregateError(attempted, msg) ==
    [kind |-> "error", attempted |-> attempted, lastError |-> msg]

\* mutant: the exponent is the 1-based attempt number
BackoffDelayOffByOne(a) == retryDelayMs * Pow2(a + 1)

\* const delay = config.failover.retryDelayMs * 2 ** attempt
BackoffDelay(a) == retryDelayMs * Pow2(a)

\* the guard of `if (attempt < maxRetries - 1)` before the sleep
SleepsAfter(a) == a < maxRetries - 1

\* mutant: a failover is reported on every success
SwitchedProvidersAlways(name) == TRUE

\* the guard of `if (providerName !== this.currentProvider)`
SwitchedProviders(name) == name # currentProvider

\* the call provider.sendMessage(message, context, options) is made and
\* awaited for the provider of slot s, inner loop counter a
IssueSend(s, a, iss) ==
    /\ pc' = "awaitSend"
    /\ slot' = s
    /\ attempt' = a
    /\ issued' = [iss EXCEPT ![s] = @ + 1]
    /\ inFlight' = inFlight + 1

\* mutant: backends whose healthy flag is false are skipped
NextProviderSkipUnhealthy(from, attempted, iss, msg) ==
    LET s == FindFrom(providerOrder, {n \in providers : healthy[n]}, from)
    IN  IF s = 0
        THEN /\ pc' = "done"
             /\ result' = AggregateError(attempted, msg)
             /\ attemptedProviders' = attempted
             /\ issued' = iss
             /\ UNCHANGED <<slot, attempt, inFlight>>
        ELSE /\ attemptedProviders' = Append(attempted, providerOrder[s])
             /\ IssueSend(s, 0, iss)
             /\ result' = NoResult

\* the outer loop `for (const providerName of this.providerOrder)` resumed
\* at index from: unavailable names are skipped, the next available one is
\* pushed on attemptedProviders and attempted; after the last one the
\* aggregate error is thrown
NextProvider(from, attempted, iss, msg) ==
    LET s == FindFrom(providerOrder, providers, from)
    IN  IF s = 0
        THEN /\ pc' = "done"
             /\ result' = AggregateError(attempted, msg)
             /\ attemptedProviders' = attempted
             /\ issued' = iss
             /\ UNCHANGED <<slot, attempt, inFlight>>
        ELSE /\ attemptedProviders' = Append(attempted, providerOrder[s])
             /\ IssueSend(s, 0, iss)
             /\ result' = NoResult

\* entry of sendMessage up to the first await
SendMessage ==
    /\ phase = "ready"
    /\ pc \in {"idle", "done"}
    /\ callCount < MaxCalls
    /\ callCount' = callCount + 1
    /\ lastError' = Undefined
    /\ response' = NoResponse
    /\ startCurrent' = currentProvider
    /\ rowsBefore' = Len(apiLogs)
    /\ eventsBefore' = Len(failoverEvents)
    /\ seenCurrent' = "null"
    /\ failed' = ZeroPerSlot
    /\ lastBackend' = [provider |-> Undefined, kind |-> "none"]
    /\ delay' = 0
    /\ switchedInCall' = FALSE
    /\ NextProvider(1, <<>>, ZeroPerSlot, Undefined)
    /\ tickedAt' = {}
    /\ UNCHANGED <<cfgVars, orchVars, healthVars, logVars, lastSwitch,
                   engVars>>

\* the backend answers with success: true; the success row is logged
BackendSucceeds ==
    /\ pc = "awaitSend"
    /\ LET name == providerOrder[slot]
       IN  /\ response' = [provider |-> name, success |-> TRUE]
           /\ lastBackend' = [provider |-> name, kind |-> "ok"]
           /\ apiLogs' = Append(apiLogs, ApiRow(name, TRUE))
    /\ inFlight' = inFlight - 1
    /\ pc' = "awaitLogOk"
    /\ UNCHANGED <<cfgVars, orchVars, healthVars, failoverEvents, slot,
                   attempt, attemptedProviders, lastError, delay, result,
                   callCount, startCurrent, issued, failed, rowsBefore,
                   eventsBefore, seenCurrent, lastSwitch, switchedInCall>>
    /\ UNCHANGED <<tickedAt, engVars>>

\* mutant: the success flag of the response is not looked at
IsSoftErrorNever(resp) == FALSE

\* whether the response is taken as a failure: `if (!response.success)`
IsSoftError(resp) == ~resp.success

\* the backend answers with a failure (soft or thrown): the catch block
\* records lastError and logs the failure row
BackendFails(kind) ==
    /\ pc = "awaitSend"
    /\ LET name == providerOrder[slot]
           resp == IF kind = "throw" THEN NoResponse
                   ELSE [provider |-> name, success |-> FALSE]
       IN  /\ lastBackend' = [provider |-> name, kind |-> kind]
           /\ inFlight' = inFlight - 1
           /\ failed' = [failed EXCEPT ![slot] = @ + 1]
           /\ response' = resp
           /\ IF kind = "throw" \/ IsSoftError(resp)
              THEN /\ lastError' = ErrorMessage(kind)
                   /\ apiLogs' = Append(apiLogs, ApiRow(name, FALSE))
                   /\ pc' = "awaitLogFail"
              ELSE /\ apiLogs' = Append(apiLogs, ApiRow(name, TRUE))
                   /\ pc' = "awaitLogOk"
                   /\ UNCHANGED lastError
    /\ UNCHANGED <<cfgVars, orchVars, healthVars, failoverEvents, slot,
                   attempt, attemptedProviders, delay, result, callCount,
                   startCurrent, issued, rowsBefore, eventsBefore,
                   seenCurrent, lastSwitch, switchedInCall>>
    /\ UNCHANGED <<tickedAt, engVars>>

\* handleFailover(from, to, reason, context): the failover_events row
FailoverRow(from, to) == [from |-> from, to |-> to]

\* after the success row is written: a failover event is logged when the
\* provider differs from this.currentProvider, else the call returns
LogOkDone ==
    /\ pc = "awaitLogOk"
    /\ seenCurrent' = currentProvider
    /\ LET name == providerOrder[slot]
       IN  IF SwitchedProviders(name)
           THEN /\ failoverEvents' =
                      Append(failoverEvents, FailoverRow(currentProvider, name))
                /\ pc' = "awaitFailover"
                /\ UNCHANGED <<currentProvider, result>>
           ELSE /\ currentProvider' = name
                /\ pc' = "done"
                /\ result' = [kind |-> "response", resp |-> response]
                /\ UNCHANGED failoverEvents
    /\ UNCHANGED <<cfgVars, phase, providers, healthVars, apiLogs, slot,
                   attempt, attemptedProviders, lastError, response, delay,
                   callCount, startCurrent, issued, failed, inFlight,
                   lastBackend, rowsBefore, eventsBefore, lastSwitch,
                   switchedInCall, tickedAt, engVars>>

\* after handleFailover: this.currentProvider = providerName; return
FailoverLogged ==
    /\ pc = "awaitFailover"
    /\ currentProvider' = providerOrder[slot]
    /\ pc' = "done"
    /\ result' = [kind |-> "response", resp |-> response]
    /\ UNCHANGED <<cfgVars, phase, providers, healthVars, logVars, slot,
                   attempt, attemptedProviders, lastError, response, delay,
                   callCount, histVars, lastSwitch, switchedInCall,
                   tickedAt, engVars>>

\* after the failure row is written: sleep before the next attempt, or
\* leave the inner loop and go on with the next provider
LogFailDone ==
    /\ pc = "awaitLogFail"
    /\ IF SleepsAfter(attempt)
       THEN /\ delay' = BackoffDelay(attempt)
            /\ pc' = "sleeping"
            /\ UNCHANGED <<slot, attempt, attemptedProviders, result,
                           issued, inFlight>>
       ELSE IF attempt + 1 < maxRetries
       THEN /\ IssueSend(slot, attempt + 1, issued)
            /\ UNCHANGED <<attemptedProviders, result, delay>>
       ELSE /\ NextProvider(slot + 1, attemptedProviders, issued, lastError)
            /\ UNCHANGED delay
    /\ UNCHANGED <<cfgVars, orchVars, healthVars, logVars, lastError,
                   response, callCount, startCurrent, failed, lastBackend,
                   rowsBefore, eventsBefore, seenCurrent, lastSwitch,
                   switchedInCall, tickedAt, engVars>>

\* the sleep resolves: attempt++ and the next provider.sendMessage
SleepDone ==
    /\ pc = "sleeping"
    /\ IF attempt + 1 < maxRetries
       THEN /\ IssueSend(slot, attempt + 1, issued)
            /\ UNCHANGED <<attemptedProviders, result>>
       ELSE NextProvider(slot + 1, attemptedProviders, issued, lastError)
    /\ UNCHANGED <<cfgVars, orchVars, healthVars, logVars, lastError,
                   response, delay, callCount, startCurrent, failed,
                   lastBackend, rowsBefore, eventsBefore, seenCurrent,
                   lastSwitch, switchedInCall, tickedAt, engVars>>

\* ------------------------------------------------------------------------
\* health checks (startHealthChecks, BaseAPIProvider.healthCheck,
\* OllamaProvider.healthCheck)
\* ------------------------------------------------------------------------
ProbeOutcomes == {"ok", "soft", "throw"}

\* provider.healthy after healthCheck: the base class sets it from the
\* answer; ollama sets true on status 200, false on an exception and leaves
\* it alone on another status
HealthyAfter(name, outcome) ==
    IF name = "ollama"
    THEN IF outcome = "ok" THEN TRUE
         ELSE IF outcome = "throw" THEN FALSE
         ELSE healthy[name]
    ELSE outcome = "ok"

\* provider.lastHealthCheck after healthCheck at tick number tick: the base
\* class stamps it on every path, ollama only on status 200
StampAfter(name, outcome, tick) ==
    IF name = "ollama" /\ outcome # "ok" THEN lastHealthCheck[name]
    ELSE tick

\* the suspension points of sendMessage: the awaited backend send, the two
\* awaited logAPICall writes, the awaited handleFailover and the sleep
SuspensionPoints ==
    {"awaitSend", "awaitLogOk", "awaitFailover", "awaitLogFail", "sleeping"}

\* history of where the timer callback ran while a call was suspended
TickedAfter ==
    IF pc \in SuspensionPoints THEN tickedAt \cup {pc} ELSE tickedAt

\* the setInterval callback starts: `for (const [name, provider] of
\* this.providers)` reaches its first await
HealthTick ==
    /\ phase = "ready"
    /\ hcPos = 0
    /\ tickCount < tickLimit
    /\ tickCount' = tickCount + 1
    /\ hcPos' = 1
    /\ tickedAt' = TickedAfter
    /\ UNCHANGED <<cfgVars, orchVars, healthy, lastHealthCheck, logVars,
                   sendVars, histVars, lastSwitch, switchedInCall, engVars>>

\* mutant: a backend whose probe fails is taken out of the available set
HealthProbeDropsUnhealthy(outcome) ==
    /\ hcPos > 0
    /\ LET keys == MapKeys(providerOrder, providers, 1)
           name == keys[hcPos]
       IN  /\ healthy' = [healthy EXCEPT ![name] = HealthyAfter(name, outcome)]
           /\ lastHealthCheck' =
                 [lastHealthCheck EXCEPT
                     ![name] = StampAfter(name, outcome, tickCount)]
           /\ providers' = IF outcome = "ok" \/ Cardinality(providers) = 1
                           THEN providers ELSE providers \ {name}
           /\ hcPos' = 0
    /\ tickedAt' = TickedAfter
    /\ UNCHANGED <<cfgVars, phase, currentProvider, tickCount, logVars,
                   sendVars, histVars, lastSwitch, switchedInCall, engVars>>

\* the awaited provider.healthCheck() of the provider at hcPos finishes
HealthProbe(outcome) ==
    /\ hcPos > 0
    /\ LET keys == MapKeys(providerOrder, providers, 1)
           name == keys[hcPos]
       IN  /\ healthy' = [healthy EXCEPT ![name] = HealthyAfter(name, outcome)]
           /\ lastHealthCheck' =
                 [lastHealthCheck EXCEPT
                     ![name] = StampAfter(name, outcome, tickCount)]
           /\ hcPos' = IF hcPos < Len(keys) THEN hcPos + 1 ELSE 0
    /\ tickedAt' = TickedAfter
    /\ UNCHANGED <<cfgVars, orchVars, tickCount, logVars, sendVars, histVars,
                   lastSwitch, switchedInCall, engVars>>

\* ========================================================================
\* Part 2: AntigravityEngine
\* ========================================================================
PERMISSION_MODES == {"default", "auto-edit", "plan-only"}

\* the tools of getToolDefinitions
ToolNames == {"read_file", "write_file", "list_dir", "delete_file"}

\* two files under the base directory, the base directory itself and a path
\* that _resolvePath rejects
BasePaths == {"a", "b"}
OutsidePath == "../x"

ToolCall(name, path) == [name |-> name, path |-> path]
ReadA == ToolCall("read_file", "a")
ListDir == ToolCall("list_dir", ".")
DeleteA == ToolCall("delete_file", "a")
WriteA == ToolCall("write_file", "a")
WriteB == ToolCall("write_file", "b")
WriteOutside == ToolCall("write_file", OutsidePath)
ReadOutside == ToolCall("read_file", OutsidePath)
UnknownTool == ToolCall("run_command", "a")

\* the toolCalls arrays a backend answers with: each tool alone, two and
\* three writes, writes before, between and after other tools, a tool
\* that does not exist and a path outside the base directory
AllCallLists ==
    { <<ReadA>>, <<ListDir>>, <<DeleteA>>, <<WriteA>>,
      <<UnknownTool, ReadOutside>>,
      <<WriteA, WriteB>>, <<WriteA, ReadA>>, <<WriteB, WriteOutside>>,
      <<WriteA, DeleteA, WriteB>>,
      <<ListDir, WriteA, ReadA, WriteB>> }

CallLists == { l \in AllCallLists : Len(l) <= MaxToolCalls }

\* the id of the i-th call of round r (the providers generate unique ids)
CallId(r, i) == r * 10 + i

WithIds(calls, r) ==
    [i \in 1..Len(calls) |->
        [id |-> CallId(r, i), name |-> calls[i].name, path |-> calls[i].path]]

\* the content write_file calls carry, and the content of a file that
\* exists before the turn
NewContent == "new"
OldContent == "old"
Absent == "absent"

\* the text of a tool result: error is whether it starts with 'Error: '
Text(t) == [error |-> FALSE, text |-> t]
SkippedText == Text("Skipped: Plan-only mode")
CancelledText == Text("Cancelled by user")
WrittenText == Text("Successfully wrote")
DeletedText == Text("Successfully deleted")
ListingText == Text("listing")
NoToolResult == Text("none")

\* `Error: ${error.message}` of _executeTool and of the catch blocks of
\* _executeBatchWrite; error.message is `Failed to <op> ...: <cause>`
ErrorText(cause) == [error |-> TRUE, text |-> cause]

\* _resolvePath: the path is inside the base directory
InsideBase(path) == path # OutsidePath

RECURSIVE FilterIdx(_, _, _)
FilterIdx(calls, isWrite, i) ==
    IF i > Len(calls) THEN <<>>
    ELSE (IF (calls[i].name = "write_file") = isWrite THEN <<i>> ELSE <<>>)
         \o FilterIdx(calls, isWrite, i + 1)

\* response.toolCalls.filter(tc => tc.name === 'write_file') and its
\* complement, as indices into toolCalls
writeOperations(calls) == FilterIdx(calls, TRUE, 1)
otherOperations(calls) == FilterIdx(calls, FALSE, 1)

\* mutant: the calls are handled in the order of the response
ExecutionOrderAsCalled(calls) == [i \in 1..Len(calls) |-> i]

\* the order in which _executeWithTools handles the calls of a round: the
\* non-write calls first, then the write calls
ExecutionOrder(calls) == otherOperations(calls) \o writeOperations(calls)

\* the call handled at position q
CallAt(calls, order, q) == calls[order[q]]
CurrentCall == CallAt(toolCalls, queue, qpos)

\* a result is ready: the next await is addToolResultMessage
Resolved(text) ==
    /\ epc' = "addResult"
    /\ toolResult' = text

\* fileSystemTools.writeFile(path, content, skip) up to its first await:
\* _resolvePath throws for a path outside the base directory, else the
\* checkpoint is requested
WriteFileStart(call, skip) ==
    /\ skipConfirmation' = skip
    /\ started' = Append(started, call.id)
    /\ IF InsideBase(call.path)
       THEN /\ epc' = "checkpoint"
            /\ toolResult' = NoToolResult
       ELSE Resolved(ErrorText("Access denied"))

\* mutant: the permission mode is not looked at
BatchChoiceOfModeIgnored(m, json) == "apply"

\* the first lines of _executeBatchWrite: what the mode read by getMode()
\* selects; "ask" is the prompt of ui.confirmBatchOperation, which answers
\* 'apply_all' itself in json mode
BatchChoiceOfMode(m, json) ==
    IF m = "plan-only" THEN "skip"
    ELSE IF m = "default" /\ ~json THEN "ask"
    ELSE "apply"

\* the entry pushed to results for a write call of the batch
BatchResult(call, ok) == [path |-> call.path, success |-> ok]

\* results after the write call has been handled: the apply-all loop pushes
\* success: true when writeFile returned; the review-each loop pushes it
\* whatever _executeTool returned, which never throws
Pushed(call, ok) ==
    IF batch = "none" THEN results
    ELSE Append(results, BatchResult(call, ok \/ batch = "review"))

\* _executeBatchWrite at the write call, b being the loop that is running
\* ("none": the function is entered)
BatchWrite(call, b) ==
    LET c == IF b = "none" THEN BatchChoiceOfMode(mode, jsonMode) ELSE b
        base == IF b = "none" THEN <<>> ELSE results
    IN  /\ batchMode' = IF b = "none" THEN mode ELSE batchMode
        /\ results' = IF c \in {"apply", "review"} /\ ~InsideBase(call.path)
                       THEN Append(base, BatchResult(call, c = "review"))
                       ELSE base
        /\ IF c = "ask"
           THEN /\ epc' = "batchPrompt"
                /\ prompts' = Append(prompts, [kind |-> "batch", id |-> 0])
                /\ UNCHANGED <<batch, skipConfirmation, toolResult, started>>
           ELSE /\ batch' = c
                /\ UNCHANGED prompts
                /\ IF c = "skip"
                   THEN /\ Resolved(SkippedText)
                        /\ UNCHANGED <<skipConfirmation, started>>
                   ELSE IF c = "cancel"
                   THEN /\ Resolved(CancelledText)
                        /\ UNCHANGED <<skipConfirmation, started>>
                   ELSE WriteFileStart(call, c = "apply")

\* mutant: a single write_file call is routed through the batch as well
ContinueBatchesSingle(calls, order, q, b) ==
    /\ qpos' = q
    /\ IF q > Len(order)
       THEN /\ epc' = "callingBackend"
            /\ message' = "null"
            /\ batch' = "none"
            /\ UNCHANGED <<batchMode, skipConfirmation, toolResult, started,
                           prompts, results>>
       ELSE LET call == CallAt(calls, order, q)
            IN  /\ UNCHANGED message
                /\ IF call.name # "write_file"
                   THEN /\ epc' = "execTool"
                        /\ started' = Append(started, call.id)
                        /\ UNCHANGED <<batch, batchMode, skipConfirmation,
                                       toolResult, prompts, results>>
                   ELSE BatchWrite(call, b)

\* mutant: the recursive call passes the user message again
ContinueResendsMessage(calls, order, q, b) ==
    /\ qpos' = q
    /\ IF q > Len(order)
       THEN /\ epc' = "callingBackend"
            /\ message' = "user"
            /\ batch' = "none"
            /\ UNCHANGED <<batchMode, skipConfirmation, toolResult, started,
                           prompts, results>>
       ELSE LET call == CallAt(calls, order, q)
            IN  /\ UNCHANGED message
                /\ IF call.name # "write_file"
                   THEN /\ epc' = "execTool"
                        /\ started' = Append(started, call.id)
                        /\ UNCHANGED <<batch, batchMode, skipConfirmation,
                                       toolResult, prompts, results>>
                   ELSE IF Len(writeOperations(calls)) = 1
                   THEN /\ WriteFileStart(call, FALSE)
                        /\ UNCHANGED <<batch, batchMode, prompts, results>>
                   ELSE BatchWrite(call, b)

\* mutant: the loop stops after one round of tools
ContinueOneRound(calls, order, q, b) ==
    /\ qpos' = q
    /\ IF q > Len(order)
       THEN /\ epc' = IF rounds >= 1 THEN "terminal" ELSE "callingBackend"
            /\ message' = "null"
            /\ batch' = "none"
            /\ UNCHANGED <<batchMode, skipConfirmation, toolResult, started,
                           prompts, results>>
       ELSE LET call == CallAt(calls, order, q)
            IN  /\ UNCHANGED message
                /\ IF call.name # "write_file"
                   THEN /\ epc' = "execTool"
                        /\ started' = Append(started, call.id)
                        /\ UNCHANGED <<batch, batchMode, skipConfirmation,
                                       toolResult, prompts, results>>
                   ELSE IF Len(writeOperations(calls)) = 1
                   THEN /\ WriteFileStart(call, FALSE)
                        /\ UNCHANGED <<batch, batchMode, prompts, results>>
                   ELSE BatchWrite(call, b)

\* _executeWithTools goes on with position q of the round: the next call is
\* started, or after the last call the context is reloaded and
\* _executeWithTools is called again with message null
Continue(calls, order, q, b) ==
    /\ qpos' = q
    /\ IF q > Len(order)
       THEN /\ epc' = "callingBackend"
            /\ message' = "null"
            /\ batch' = "none"
            /\ UNCHANGED <<batchMode, skipConfirmation, toolResult, started,
                           prompts, results>>
       ELSE LET call == CallAt(calls, order, q)
            IN  /\ UNCHANGED message
                /\ IF call.name # "write_file"
                   THEN /\ epc' = "execTool"
                        /\ started' = Append(started, call.id)
                        /\ UNCHANGED <<batch, batchMode, skipConfirmation,
                                       toolResult, prompts, results>>
                   ELSE IF Len(writeOperations(calls)) = 1
                   THEN /\ WriteFileStart(call, FALSE)
                        /\ UNCHANGED <<batch, batchMode, prompts, results>>
                   ELSE BatchWrite(call, b)

\* processRequest up to the backend call: the user message is stored, the
\* context is read
ProcessRequest ==
    /\ epc = "awaitingUser"
    /\ messages' = Append(messages, [role |-> "user"])
    /\ epc' = "callingBackend"
    /\ message' = "user"
    /\ UNCHANGED <<orchState, apiVars, cpVars,
                   permVars, rounds, toolCount, toolCalls, queue,
                   qpos, batch, batchMode, batchAnswer, results,
                   skipConfirmation,
                   toolResult, turnResult, fs, checkpoints, engHist>>

\* the stored assistant message; metadata is {toolCalls} when the response
\* carries the field
AssistantMessage(calls) == [role |-> "assistant", toolCalls |-> calls]

\* mutant: the assistant message is not stored when the response arrives
addAssistantMessageNever(msgs, calls) == msgs

\* contextManager.addAssistantMessage: the rows of the conversation after it
addAssistantMessage(msgs, calls) == Append(msgs, AssistantMessage(calls))

\* apiOrchestrator.sendMessage returns a response: it is stored; without
\* tool calls processRequest returns, else the first call is started
BackendResponds(calls) ==
    /\ epc = "callingBackend"
    /\ calls # <<>> =>
          /\ rounds < MaxRounds
          /\ toolCount + Len(calls) <= MaxTurnCalls
    /\ LET r == rounds + 1
           tcs == WithIds(calls, r)
       IN  /\ messages' = addAssistantMessage(messages, tcs)
           /\ IF calls = <<>>
              THEN /\ epc' = "terminal"
                   /\ turnResult' = [kind |-> "content"]
                   /\ UNCHANGED <<message, rounds, toolCount, toolCalls,
                                  queue, qpos, batch, batchMode,
                                  batchAnswer, results, skipConfirmation,
                                  toolResult, engHist>>
              ELSE /\ rounds' = r
                   /\ toolCount' = toolCount + Len(calls)
                   /\ toolCalls' = tcs
                   /\ queue' = ExecutionOrder(tcs)
                   /\ batchAnswer' = "none"
                   /\ Continue(tcs, ExecutionOrder(tcs), 1, "none")
                   /\ UNCHANGED turnResult
    /\ UNCHANGED <<orchState, apiVars, cpVars,
                   permVars, fs, checkpoints>>

\* apiOrchestrator.sendMessage throws the aggregate error: processRequest
\* logs it and throws it again
BackendThrows ==
    /\ epc = "callingBackend"
    /\ epc' = "failed"
    /\ turnResult' = [kind |-> "error"]
    /\ UNCHANGED <<orchState, apiVars, cpVars,
                   permVars, message, rounds, toolCount, toolCalls,
                   queue, qpos, batch, batchMode, batchAnswer, results,
                   skipConfirmation, toolResult, storeVars, engHist>>

\* the file system after deleteFile(path): fs.unlink
Unlinked(path) == [fs EXCEPT ![path] = Absent]

\* the file system after fs.writeFile(fullPath, content)
Written(path, content) == [fs EXCEPT ![path] = content]

\* _executeTool for a tool other than write_file: the awaited file
\* operation finishes; what it throws becomes the text `Error: ...`
ExecuteToolResult(call) ==
    IF call.name \notin ToolNames THEN ErrorText("Unknown tool")
    ELSE IF ~InsideBase(call.path) THEN ErrorText("Access denied")
    ELSE IF call.name = "list_dir" THEN ListingText
    ELSE IF fs[call.path] = Absent THEN ErrorText("ENOENT")
    ELSE IF call.name = "read_file" THEN Text(fs[call.path])
    ELSE DeletedText

\* mutant: what the tool throws leaves _executeTool
ToolFinishesRethrows ==
    /\ epc = "execTool"
    /\ LET call == CurrentCall
           text == ExecuteToolResult(call)
       IN  /\ IF text.error
              THEN epc' = "failed" /\ UNCHANGED toolResult
              ELSE Resolved(text)
           /\ fs' = IF call.name = "delete_file" /\ text = DeletedText
                    THEN Unlinked(call.path) ELSE fs
    /\ UNCHANGED <<orchState, apiVars, cpVars,
                   permVars, message, rounds, toolCount, toolCalls,
                   queue, qpos, batch, batchMode, batchAnswer, results,
                   skipConfirmation, turnResult, messages, checkpoints,
                   engHist>>

ToolFinishes ==
    /\ epc = "execTool"
    /\ LET call == CurrentCall
           text == ExecuteToolResult(call)
       IN  /\ Resolved(text)
           /\ fs' = IF call.name = "delete_file" /\ text = DeletedText
                    THEN Unlinked(call.path) ELSE fs
    /\ UNCHANGED <<orchState, apiVars, cpVars,
                   permVars, message, rounds, toolCount, toolCalls,
                   queue, qpos, batch, batchMode, batchAnswer, results,
                   skipConfirmation, turnResult, messages, checkpoints,
                   engHist>>

\* checkpointManager.createCheckpoint either stores a row or throws (the
\* database write fails); writeFile logs the failure and goes on
CheckpointOutcomes == {"stored", "throws"}

\* the argument of saveCheckpoint: content and fileExists of the file now
\* (content null for a file that cannot be read) and Date.now()
CheckpointRow(path) ==
    [filePath |-> path, content |-> fs[path], fileExists |-> fs[path] # Absent,
     timestamp |-> clock]

\* Database.saveCheckpoint: the table with one more row, which gets a new
\* id; the rows already stored are left alone
saveCheckpoint(data) ==
    Append(checkpoints,
           [id |-> cpNext, filePath |-> data.filePath,
            content |-> data.content, fileExists |-> data.fileExists,
            timestamp |-> data.timestamp])

\* whether writeFile shows the diff and asks ui.confirmAction
AsksConfirmation(skip) == ~jsonMode /\ ~skip

\* writeFile after createCheckpoint: it asks for confirmation, or creates
\* the directory and writes the file
CheckpointDone(outcome) ==
    /\ epc = "checkpoint"
    /\ LET call == CurrentCall
       IN  /\ checkpoints' =
                 IF outcome = "stored"
                 THEN saveCheckpoint(CheckpointRow(call.path))
                 ELSE checkpoints
           /\ cpNext' = IF outcome = "stored" THEN cpNext + 1 ELSE cpNext
           /\ cpCall' = IF outcome = "stored" THEN call.id ELSE cpCall
           /\ cpPre' = IF outcome = "stored"
                        THEN Append(cpPre, fs[call.path]) ELSE cpPre
           /\ IF AsksConfirmation(skipConfirmation)
              THEN /\ epc' = "confirm"
                   /\ prompts' =
                         Append(prompts, [kind |-> "file", id |-> call.id])
                   /\ UNCHANGED <<fs, toolResult, results>>
              ELSE /\ fs' = Written(call.path, NewContent)
                   /\ Resolved(WrittenText)
                   /\ results' = Pushed(call, TRUE)
                   /\ UNCHANGED prompts
    /\ UNCHANGED <<orchState, apiVars,
                   permVars, message, rounds, toolCount, toolCalls,
                   queue, qpos, batch, batchMode, batchAnswer,
                   skipConfirmation, turnResult, messages, started>>

\* mutant: a refused file ends the review, the files after it are recorded
\* as cancelled
ConfirmAnsweredEndsReview(confirmed) ==
    /\ epc = "confirm"
    /\ IF confirmed
       THEN /\ fs' = Written(CurrentCall.path, NewContent)
            /\ Resolved(WrittenText)
            /\ UNCHANGED batch
       ELSE /\ Resolved(ErrorText("User cancelled file write"))
            /\ batch' = IF batch = "review" THEN "cancel" ELSE batch
            /\ UNCHANGED fs
    /\ results' = Pushed(CurrentCall, TRUE)
    /\ UNCHANGED <<orchState, apiVars, cpVars,
                   permVars, message, rounds, toolCount, toolCalls,
                   queue, qpos, batchMode, batchAnswer,
                   skipConfirmation, turnResult, messages, checkpoints,
                   engHist>>

\* mutant: a refused write is recorded like a cancelled batch
ConfirmAnsweredCancels(confirmed) ==
    /\ epc = "confirm"
    /\ IF confirmed
       THEN /\ fs' = Written(CurrentCall.path, NewContent)
            /\ Resolved(WrittenText)
       ELSE /\ Resolved(CancelledText)
            /\ UNCHANGED fs
    /\ results' = Pushed(CurrentCall, TRUE)
    /\ UNCHANGED <<orchState, apiVars, cpVars,
                   permVars, message, rounds, toolCount, toolCalls,
                   queue, qpos, batch, batchMode, batchAnswer,
                   skipConfirmation, turnResult, messages, checkpoints,
                   engHist>>

\* the user answers the prompt of ui.confirmAction: anything but "n"
\* confirms; a refusal throws 'User cancelled file write'
ConfirmAnswered(confirmed) ==
    /\ epc = "confirm"
    /\ IF confirmed
       THEN /\ fs' = Written(CurrentCall.path, NewContent)
            /\ Resolved(WrittenText)
       ELSE /\ Resolved(ErrorText("User cancelled file write"))
            /\ UNCHANGED fs
    /\ results' = Pushed(CurrentCall, TRUE)
    /\ UNCHANGED <<orchState, apiVars, cpVars,
                   permVars, message, rounds, toolCount, toolCalls,
                   queue, qpos, batch, batchMode, batchAnswer,
                   skipConfirmation, turnResult, messages, checkpoints,
                   engHist>>

\* what the user types at the prompt 'Your choice: '
BatchAnswers == {"A", "apply", "r", "review", "c", "yes"}

\* answer.trim().toLowerCase() for the answers above
Normalized(answer) == IF answer = "A" THEN "a" ELSE answer

\* mutant: an answer that is not understood applies the changes
confirmBatchOperationLenient(answer) ==
    LET choice == Normalized(answer)
    IN  IF choice = "r" \/ choice = "review" THEN "review"
        ELSE IF choice = "c" THEN "cancel"
        ELSE "apply"

\* what ui.confirmBatchOperation resolves with for an answer
confirmBatchOperation(answer) ==
    LET choice == Normalized(answer)
    IN  IF choice = "a" \/ choice = "apply" THEN "apply"
        ELSE IF choice = "r" \/ choice = "review" THEN "review"
        ELSE "cancel"

\* the user answers the prompt of ui.confirmBatchOperation
BatchAnswered(answer) ==
    /\ epc = "batchPrompt"
    /\ batchAnswer' = answer
    /\ Continue(toolCalls, queue, qpos, confirmBatchOperation(answer))
    /\ UNCHANGED <<orchState, apiVars, cpVars,
                   permVars, rounds, toolCount, toolCalls, queue,
                   turnResult, storeVars>>

\* mutant: the result is stored without the id of the call
ToolResultMessageUnkeyed(call, text) ==
    [role |-> "system", type |-> "tool_result", toolCallId |-> 0,
     toolName |-> call.name, content |-> text]

\* the row addToolResultMessage stores: role 'system' with the call's id
\* and name in the metadata
ToolResultMessage(call, text) ==
    [role |-> "system", type |-> "tool_result", toolCallId |-> call.id,
     toolName |-> call.name, content |-> text]

\* mutant: the loop goes on before the result is stored
ResultAddedNotAwaited ==
    /\ epc = "addResult"
    /\ UNCHANGED messages
    /\ Continue(toolCalls, queue, qpos + 1, batch)
    /\ UNCHANGED <<orchState, apiVars, cpVars,
                   permVars, rounds, toolCount, toolCalls, queue,
                   batchAnswer, turnResult, fs, checkpoints>>

\* addToolResultMessage has stored the result; the round goes on
ResultAdded ==
    /\ epc = "addResult"
    /\ messages' = Append(messages, ToolResultMessage(CurrentCall, toolResult))
    /\ Continue(toolCalls, queue, qpos + 1, batch)
    /\ UNCHANGED <<orchState, apiVars, cpVars,
                   permVars, rounds, toolCount, toolCalls, queue,
                   batchAnswer, turnResult, fs, checkpoints>>

\* the /mode command while the turn is in progress: setMode(newMode)
SetMode(newMode) ==
    /\ newMode \in PERMISSION_MODES
    /\ newMode # mode
    /\ epc \notin {"awaitingUser", "terminal", "failed"}
    /\ modeChanges < MaxModeChanges
    /\ modeChanges' = modeChanges + 1
    /\ mode' = newMode
    /\ savedMode' = newMode
    /\ UNCHANGED <<orchState, apiVars, cpVars,
                   jsonMode, loopVars, storeVars, engHist>>

\* the engine after initialize(), before the first request; no tool round
\* is in progress
LoopIdle ==
    /\ epc = "awaitingUser"
    /\ message = "none"
    /\ rounds = 0
    /\ toolCount = 0
    /\ toolCalls = <<>>
    /\ queue = <<>>
    /\ qpos = 0
    /\ batch = "none"
    /\ batchMode = "none"
    /\ batchAnswer = "none"
    /\ results = <<>>
    /\ cpNext = 1
    /\ cpCall = 0
    /\ cpPre = <<>>
    /\ clock = 0
    /\ opResult = [kind |-> "none", id |-> 0]
    /\ skipConfirmation = FALSE
    /\ toolResult = NoToolResult
    /\ messages = <<>>
    /\ checkpoints = <<>>
    /\ turnResult = [kind |-> "none"]
    /\ prompts = <<>>
    /\ started = <<>>
    /\ modeChanges = 0

\* file a exists, file b does not
EngineIdle ==
    /\ LoopIdle
    /\ fs = [p \in BasePaths |-> IF p = "a" THEN OldContent ELSE Absent]

\* the engine is not used: interactive, default mode
EngineUnused ==
    /\ EngineIdle
    /\ mode = "default"
    /\ savedMode = mode
    /\ jsonMode = FALSE

\* ------------------------------------------------------------------------
\* Part 7: the agents (planner, coder, reviewer) and the execution providers
\* ------------------------------------------------------------------------
\* a command is its text as the list of its words, one blank between two
\* words; String.prototype.includes on such texts
includes(text, pattern) ==
    \E i \in 0..(Len(text) - Len(pattern)) :
        SubSeq(text, i + 1, i + Len(pattern)) = pattern

\* this.blocklist of LocalExecutionProvider
blocklist ==
    { <<"rm", "-rf", "/">>,
      <<"rm", "-rf", "~">>,
      <<"format", "c:">>,
      <<":(){", ":|:&", "};:">>,
      <<">", "/dev/sda">>,
      <<"mkfs">>,
      <<"dd", "if=/dev/zero">> }

\* the safety check of LocalExecutionProvider.execute
Blocked(command) == \E blocked \in blocklist : includes(command, blocked)

\* the values of the config key execution.mode that select a provider
ExecutionModes == {"local", "docker"}

\* the commands a plan may hold
Commands == { <<"ls">>, <<"rm", "-rf", "/">>, <<"sudo", "rm", "-rf", "/">> }

\* the steps a plan may hold; details matter for commands only
StepKinds ==
    [type : {"command"}, details : Commands]
        \cup [type : {"code", "review"}, details : {<<"ls">>}]

\* what JSON.parse may give the planner: a list of steps
Plans == UNION { [1..n -> StepKinds] : n \in 0..MaxPlan }

\* default of the parameter maxRetries of executeWithRetry
CommandRetries == 2

\* the attempts AgentOrchestrator.execute gives a step
AttemptLimit == 3

NoActResult == [success |-> FALSE, error |-> "none yet"]
BlockedResult == [success |-> FALSE, error |-> "Command blocked for safety"]
CancelledResult == [success |-> FALSE, error |-> "User cancelled execution"]
FailedResult == [success |-> FALSE, error |-> "command failed"]
CommandOutput == [success |-> TRUE, error |-> "stderr"]
SkippedResult == [success |-> TRUE, error |-> "none"]
GeneratedResult == [success |-> TRUE, error |-> "none"]

\* executeWithRetry after a failed executeCommand: give up at the last
\* retry, else ask the engine for a fix
afterFailure(res, r, ex) ==
    IF r = CommandRetries
    THEN [cpc |-> "returned", retries |-> r, actResult |-> res,
          executed |-> ex]
    ELSE [cpc |-> "fix", retries |-> r, actResult |-> res, executed |-> ex]

\* provider.execute(command) of the provider ExecutionManager.getProvider
\* returns: the local provider throws on a blocked command, every other
\* command is handed to execAsync (docker: inside `docker run`)
execute(command, r, ex) ==
    IF execMode = "local" /\ Blocked(command)
    THEN afterFailure(BlockedResult, r, ex)
    ELSE [cpc |-> "exec", retries |-> r, actResult |-> NoActResult,
          executed |-> ex \cup {[mode |-> execMode, command |-> command]}]

\* executeCommand up to its first await that the environment answers
executeCommand(command, r, ex) ==
    IF ~jsonMode
    THEN [cpc |-> "confirm", retries |-> r, actResult |-> NoActResult,
          executed |-> ex]
    ELSE execute(command, r, ex)

\* CoderAgent.act up to its first await that the environment answers
act(step, ex) ==
    IF step.type = "command" THEN executeCommand(step.details, 0, ex)
    ELSE IF step.type = "code"
    THEN [cpc |-> "generate", retries |-> 0, actResult |-> NoActResult,
          executed |-> ex]
    ELSE [cpc |-> "returned", retries |-> 0, actResult |-> SkippedResult,
          executed |-> ex]

\* the coder is where cs says; when act has returned, execute calls the
\* reviewer
CoderAt(cs) ==
    /\ cpc' = cs.cpc
    /\ retries' = cs.retries
    /\ actResult' = cs.actResult
    /\ executed' = cs.executed
    /\ apc' = IF cs.cpc = "returned" THEN "review" ELSE "coder"

\* the while condition of execute (mutation)
LoopContinuesOnceMore(n) == n < AttemptLimit + 1

\* the while condition of execute, success being false
LoopContinues(n) == n < AttemptLimit

\* one more attempt at step k: attempts++, then coder.act(step)
StartAttempt(k, n) ==
    /\ stepIdx' = k
    /\ attempts' = n + 1
    /\ coderRuns' = [coderRuns EXCEPT ![k] = @ + 1]
    /\ CoderAt(act(plan[k], executed))

\* execute is over
Finished(kind, error) ==
    /\ apc' = "done"
    /\ workflow' = [kind |-> kind, error |-> error]
    /\ cpc' = "idle"
    /\ UNCHANGED <<stepIdx, attempts, retries, actResult, executed>>

\* orchestrator.execute(goal) up to planner.act
Execute ==
    /\ apc = "idle"
    /\ apc' = "planning"
    /\ UNCHANGED <<execMode, plan, stepIdx, attempts, workflow, cpc, retries,
                   actResult, executed, coderRuns, rejections, approved>>
    /\ UNCHANGED <<orchOnly, engOnly>>

\* planner.act returns the plan; the first step is started
PlannerReturns(p) ==
    /\ apc = "planning"
    /\ plan' = p
    /\ rejections' = [k \in 1..Len(p) |-> 0]
    /\ approved' = [k \in 1..Len(p) |-> FALSE]
    /\ IF p = <<>>
       THEN /\ Finished("returned", "none")
            /\ coderRuns' = <<>>
       ELSE /\ stepIdx' = 1
            /\ attempts' = 1
            /\ coderRuns' = [k \in 1..Len(p) |-> IF k = 1 THEN 1 ELSE 0]
            /\ CoderAt(act(p[1], executed))
            /\ UNCHANGED workflow
    /\ UNCHANGED execMode
    /\ UNCHANGED <<orchOnly, engOnly>>

\* planner.act throws (the AI call failed or its answer is not JSON)
PlannerThrows ==
    /\ apc = "planning"
    /\ Finished("threw", "Planner failed")
    /\ UNCHANGED <<execMode, plan, coderRuns, rejections, approved>>
    /\ UNCHANGED <<orchOnly, engOnly>>

\* the user answers `Execute command: ...?`
CommandConfirmed(confirmed) ==
    /\ apc = "coder"
    /\ cpc = "confirm"
    /\ CoderAt(IF confirmed
               THEN execute(plan[stepIdx].details, retries, executed)
               ELSE afterFailure(CancelledResult, retries, executed))
    /\ UNCHANGED <<execMode, plan, stepIdx, attempts, workflow, coderRuns,
                   rejections, approved>>
    /\ UNCHANGED <<orchOnly, engOnly>>

\* execAsync settles
CommandExits(ok) ==
    /\ apc = "coder"
    /\ cpc = "exec"
    /\ CoderAt(IF ok
               THEN [cpc |-> "returned", retries |-> retries,
                     actResult |-> CommandOutput, executed |-> executed]
               ELSE afterFailure(FailedResult, retries, executed))
    /\ UNCHANGED <<execMode, plan, stepIdx, attempts, workflow, coderRuns,
                   rejections, approved>>
    /\ UNCHANGED <<orchOnly, engOnly>>

\* performFix settles: retry the command, or return the failure when the
\* engine threw
FixDone(applied) ==
    /\ apc = "coder"
    /\ cpc = "fix"
    /\ CoderAt(IF applied
               THEN executeCommand(plan[stepIdx].details, retries + 1,
                                   executed)
               ELSE [cpc |-> "returned", retries |-> retries,
                     actResult |-> actResult, executed |-> executed])
    /\ UNCHANGED <<execMode, plan, stepIdx, attempts, workflow, coderRuns,
                   rejections, approved>>
    /\ UNCHANGED <<orchOnly, engOnly>>

\* generateCode: engine.processRequest settles; when it throws, act and
\* execute throw
CodeGenerated(ok) ==
    /\ apc = "coder"
    /\ cpc = "generate"
    /\ IF ok
       THEN /\ CoderAt([cpc |-> "returned", retries |-> retries,
                        actResult |-> GeneratedResult,
                        executed |-> executed])
            /\ UNCHANGED <<stepIdx, attempts, workflow>>
       ELSE Finished("threw", "engine")
    /\ UNCHANGED <<execMode, plan, coderRuns, rejections, approved>>
    /\ UNCHANGED <<orchOnly, engOnly>>

\* reviewer.act settles, and execute runs up to its next await
ReviewDone(outcome) ==
    /\ apc = "review"
    /\ UNCHANGED <<execMode, plan>>
    /\ UNCHANGED <<orchOnly, engOnly>>
    /\ CASE outcome = "approved" ->
                /\ approved' = [approved EXCEPT ![stepIdx] = TRUE]
                /\ UNCHANGED rejections
                /\ IF stepIdx = Len(plan)
                   THEN /\ Finished("returned", "none")
                        /\ UNCHANGED coderRuns
                   ELSE /\ StartAttempt(stepIdx + 1, 0)
                        /\ UNCHANGED workflow
         [] outcome = "rejected" ->
                /\ rejections' = [rejections EXCEPT ![stepIdx] = @ + 1]
                /\ UNCHANGED approved
                /\ IF LoopContinues(attempts)
                   THEN /\ StartAttempt(stepIdx, attempts)
                        /\ UNCHANGED workflow
                   ELSE /\ Finished("threw", "Failed to complete step")
                        /\ UNCHANGED coderRuns
         [] OTHER ->
                /\ Finished("threw", "reviewer")
                /\ UNCHANGED <<coderRuns, rejections, approved>>

ReviewOutcomes == {"approved", "rejected", "throws"}

\* no agent has been asked anything
AgentsIdle ==
    /\ apc = "idle"
    /\ plan = <<>>
    /\ stepIdx = 0
    /\ attempts = 0
    /\ workflow = [kind |-> "none", error |-> "none"]
    /\ cpc = "idle"
    /\ retries = 0
    /\ actResult = NoActResult
    /\ executed = {}
    /\ coderRuns = <<>>
    /\ rejections = <<>>
    /\ approved = <<>>

\* the agents are not used; commands would run on the host
AgentsUnused ==
    /\ AgentsIdle
    /\ execMode = "local"

\* ------------------------------------------------------------------------
\* Specification
\* ------------------------------------------------------------------------
\* names outside the configured order have no stored key
CredsFor(order) ==
    { c \in [Names -> CredStates] :
        \A n \in Names :
            IF \E i \in 1..Len(order) : order[i] = n
            THEN c[n] \in CredOptions(n)
            ELSE c[n] = "nokey" }

\* the state after `new APIOrchestrator(database)`
Constructed ==
    /\ phase = "new"
    /\ providers = {}
    /\ currentProvider = "null"
    /\ healthy = [n \in Names |-> FALSE]
    /\ lastHealthCheck = [n \in Names |-> 0]
    /\ apiLogs = <<>>
    /\ failoverEvents = <<>>
    /\ pc = "idle"
    /\ slot = 0
    /\ attempt = 0
    /\ attemptedProviders = <<>>
    /\ lastError = Undefined
    /\ response = NoResponse
    /\ delay = 0
    /\ result = NoResult
    /\ hcPos = 0
    /\ lastSwitch = "none"
    /\ callCount = 0
    /\ tickCount = 0
    /\ startCurrent = "null"
    /\ issued = ZeroPerSlot
    /\ failed = ZeroPerSlot
    /\ inFlight = 0
    /\ lastBackend = [provider |-> Undefined, kind |-> "none"]
    /\ rowsBefore = 0
    /\ eventsBefore = 0
    /\ seenCurrent = "null"
    /\ switchedInCall = FALSE
    /\ tickedAt = {}

\* FAILOVER_ENABLED=false: initialize starts no health-check timer
Init ==
    /\ Constructed
    /\ AgentsUnused
    /\ providerOrder \in Configs
    /\ cred \in CredsFor(providerOrder)
    /\ maxRetries \in 1..MaxRetriesBound
    /\ retryDelayMs \in BaseDelays
    /\ tickLimit = 0
    /\ EngineUnused

Next ==
    \/ Initialize
    \/ \E name \in Names : SwitchProvider(name)
    \/ SendMessage
    \/ BackendSucceeds
    \/ \E kind \in FailureKinds : BackendFails(kind)
    \/ LogOkDone
    \/ FailoverLogged
    \/ LogFailDone
    \/ SleepDone

Spec == Init /\ [][Next]_vars

\* failover enabled (the default): the health-check timer runs beside
\* sendMessage calls; no /provider command is given
\* every configured vendor has a stored key, ollama runs without one
AllStored(order) ==
    [n \in Names |->
        IF n = "ollama" \/ \A i \in 1..Len(order) : order[i] # n
        THEN "nokey" ELSE "ok"]

HealthInit ==
    /\ Constructed
    /\ AgentsUnused
    /\ providerOrder \in Configs
    /\ cred = AllStored(providerOrder)
    /\ maxRetries = MaxHealthRetries
    /\ retryDelayMs = DefaultRetryDelayMs
    /\ tickLimit = MaxTicks
    /\ EngineUnused

HealthNext ==
    \/ Initialize
    \/ SendMessage
    \/ BackendSucceeds
    \/ \E kind \in FailureKinds : BackendFails(kind)
    \/ LogOkDone
    \/ FailoverLogged
    \/ LogFailDone
    \/ SleepDone
    \/ HealthTick
    \/ \E outcome \in ProbeOutcomes : HealthProbe(outcome)

HealthSpec == HealthInit /\ [][HealthNext]_vars

\* failover enabled and /provider commands given: sendMessage calls,
\* switchProvider calls and health-check ticks in any order. claude cannot
\* be loaded, gemini may lack its key; with one attempt per backend
\* sendMessage never sleeps
MixedInit ==
    /\ Constructed
    /\ AgentsUnused
    /\ providerOrder = <<"gemini", "claude", "openai">>
    /\ cred \in { c \in CredsFor(providerOrder) :
                    c["claude"] = "fail" /\ c["openai"] = "ok" }
    /\ maxRetries = 1
    /\ retryDelayMs = DefaultRetryDelayMs
    /\ tickLimit = MaxMixedTicks
    /\ EngineUnused

MixedNext ==
    \/ Initialize
    \/ \E name \in Names : SwitchProvider(name)
    \/ SendMessage
    \/ BackendSucceeds
    \/ \E kind \in FailureKinds : BackendFails(kind)
    \/ LogOkDone
    \/ FailoverLogged
    \/ LogFailDone
    \/ HealthTick
    \/ \E outcome \in ProbeOutcomes : HealthProbe(outcome)

MixedSpec == MixedInit /\ [][MixedNext]_vars

\* the steps of a sendMessage call in flight: the backend answers (it has
\* its own transport timeout), the database write completes, the timer of
\* sleep() fires
SendStep ==
    \/ BackendSucceeds
    \/ \E kind \in FailureKinds : BackendFails(kind)
    \/ LogOkDone
    \/ FailoverLogged
    \/ LogFailDone
    \/ SleepDone

\* the default retry delay only: the length of a wait does not matter for
\* whether the call ends
FairInit == Init /\ retryDelayMs = DefaultRetryDelayMs

FairSpec == FairInit /\ [][Next]_vars /\ WF_vars(SendStep)

\* one turn of the engine; the orchestrator is seen through what its
\* sendMessage returns or throws
EngineInit ==
    /\ Constructed
    /\ AgentsUnused
    /\ providerOrder = <<"gemini", "claude", "openai">>
    /\ cred = AllStored(providerOrder)
    /\ maxRetries = 1
    /\ retryDelayMs = DefaultRetryDelayMs
    /\ tickLimit = 0
    /\ EngineIdle
    /\ mode \in PERMISSION_MODES
    /\ savedMode = mode
    /\ jsonMode \in BOOLEAN

EngineNext ==
    \/ ProcessRequest
    \/ \E calls \in CallLists \cup {<<>>} : BackendResponds(calls)
    \/ BackendThrows
    \/ ToolFinishes
    \/ \E outcome \in CheckpointOutcomes : CheckpointDone(outcome)
    \/ \E confirmed \in BOOLEAN : ConfirmAnswered(confirmed)
    \/ \E answer \in BatchAnswers : BatchAnswered(answer)
    \/ ResultAdded
    \/ \E newMode \in PERMISSION_MODES : SetMode(newMode)

EngineSpec == EngineInit /\ [][EngineNext]_vars

\* the steps of a turn in progress: every await of the loop resolves (the
\* backend call returns or throws, a file operation finishes, the user
\* answers a prompt)
TurnStep ==
    \/ \E calls \in CallLists \cup {<<>>} : BackendResponds(calls)
    \/ BackendThrows
    \/ ToolFinishes
    \/ \E outcome \in CheckpointOutcomes : CheckpointDone(outcome)
    \/ \E confirmed \in BOOLEAN : ConfirmAnswered(confirmed)
    \/ \E answer \in BatchAnswers : BatchAnswered(answer)
    \/ ResultAdded

EngineFairSpec == EngineSpec /\ WF_vars(TurnStep)

\* ========================================================================
\* Part 3: CheckpointManager, called directly (/rewind, maintenance)
\* ========================================================================
\* what a file can hold: nothing, or the content a turn may have left
EmptyContent == ""
FileStates == {Absent, EmptyContent, OldContent}

\* 24 * 60 * 60 * 1000 ms, in hours
RetentionHours == 24

\* Database.getCheckpoint: the row with the id, or none
NoRow == [id |-> 0]
getCheckpoint(id) ==
    IF \E k \in 1..Len(checkpoints) : checkpoints[k].id = id
    THEN checkpoints[CHOOSE k \in 1..Len(checkpoints) :
                        checkpoints[k].id = id]
    ELSE NoRow

\* Database.deleteCheckpointsBefore: the rows older than the cutoff are
\* deleted, the others are left as they are
deleteCheckpointsBefore(cutoff) ==
    SelectSeq(checkpoints, LAMBDA row : ~(row.timestamp < cutoff))

\* createCheckpoint(filePath) called directly: the row is stored and its id
\* returned, or the error of the database is thrown again
CreateCheckpoint(path, outcome) ==
    /\ cpNext <= MaxCheckpoints
    /\ IF outcome = "stored"
       THEN /\ checkpoints' = saveCheckpoint(CheckpointRow(path))
            /\ cpNext' = cpNext + 1
            /\ cpPre' = Append(cpPre, fs[path])
            /\ opResult' = [kind |-> "checkpointId", id |-> cpNext]
       ELSE /\ opResult' = [kind |-> "error", id |-> 0]
            /\ UNCHANGED <<checkpoints, cpNext, cpPre>>
    /\ UNCHANGED <<orchState, permVars, loopVars, messages, fs, engHist,
                   cpCall, clock>>

\* a file is written or removed between two calls of the manager
FileChanges(path, state) ==
    /\ fs[path] # state
    /\ fs' = [fs EXCEPT ![path] = state]
    /\ opResult' = [kind |-> "none", id |-> 0]
    /\ UNCHANGED <<orchState, permVars, loopVars, messages, checkpoints,
                   engHist, cpVars, clock>>

\* mutant: a checkpoint of an empty file is taken for one of no file
RestoredEmptyAsAbsent(row) ==
    IF row.fileExists /\ row.content \notin {Absent, EmptyContent}
    THEN Written(row.filePath, row.content)
    ELSE Unlinked(row.filePath)

\* the files after revertToCheckpoint found the row: the content is
\* written back, or the file is removed when the row says it did not exist
Restored(row) ==
    IF row.fileExists /\ row.content # Absent
    THEN Written(row.filePath, row.content)
    ELSE Unlinked(row.filePath)

\* mutant: a missing row is not an error
RevertToCheckpointLenient(id) ==
    /\ LET row == getCheckpoint(id)
       IN  IF row = NoRow
           THEN /\ opResult' = [kind |-> "restored", id |-> id]
                /\ UNCHANGED fs
           ELSE /\ opResult' = [kind |-> "restored", id |-> id]
                /\ fs' = Restored(row)
    /\ UNCHANGED <<orchState, permVars, loopVars, messages, checkpoints,
                   engHist, cpVars, clock>>

\* revertToCheckpoint(checkpointId): throws `Checkpoint ... not found`
\* without a row, else restores the file
RevertToCheckpoint(id) ==
    /\ LET row == getCheckpoint(id)
       IN  IF row = NoRow
           THEN /\ opResult' = [kind |-> "notFound", id |-> id]
                /\ UNCHANGED fs
           ELSE /\ opResult' = [kind |-> "restored", id |-> id]
                /\ fs' = Restored(row)
    /\ UNCHANGED <<orchState, permVars, loopVars, messages, checkpoints,
                   engHist, cpVars, clock>>

\* mutant: the cutoff is now
cutoffTimeNow == clock

\* Date.now() - 24 * 60 * 60 * 1000
cutoffTime == clock - RetentionHours

\* clearOldCheckpoints(): the rows older than 24 hours are deleted
ClearOldCheckpoints ==
    /\ checkpoints' = deleteCheckpointsBefore(cutoffTime)
    /\ opResult' = [kind |-> "cleared", id |-> 0]
    /\ UNCHANGED <<orchState, permVars, loopVars, messages, fs, engHist,
                   cpVars, clock>>

\* a day passes
DayPasses ==
    /\ clock < MaxDays * RetentionHours
    /\ clock' = clock + RetentionHours
    /\ opResult' = [kind |-> "none", id |-> 0]
    /\ UNCHANGED <<orchState, permVars, loopVars, storeVars, engHist, cpVars>>

CheckpointInit ==
    /\ Constructed
    /\ AgentsUnused
    /\ providerOrder = <<"gemini", "claude", "openai">>
    /\ cred = AllStored(providerOrder)
    /\ maxRetries = 1
    /\ retryDelayMs = DefaultRetryDelayMs
    /\ tickLimit = 0
    /\ LoopIdle
    /\ mode = "default"
    /\ savedMode = mode
    /\ jsonMode = FALSE
    /\ fs \in [BasePaths -> FileStates]

CheckpointNext ==
    \/ \E path \in BasePaths, outcome \in CheckpointOutcomes :
          CreateCheckpoint(path, outcome)
    \/ \E path \in BasePaths, state \in FileStates : FileChanges(path, state)
    \/ \E id \in 1..(MaxCheckpoints + 1) : RevertToCheckpoint(id)
    \/ ClearOldCheckpoints
    \/ DayPasses

CheckpointSpec == CheckpointInit /\ [][CheckpointNext]_vars

\* ========================================================================
\* Part 4: PermissionManager, called directly (/permission, Shift+Tab)
\* ========================================================================
\* config.get returns null for a key that was never set
NoSavedMode == "null"

\* what may be stored under `permissionMode`, and what may be passed to
\* setMode
SavedValues == PERMISSION_MODES \cup {NoSavedMode, "", "admin"}

\* mutant: every stored value is taken
LoadedUnchecked(saved, current) ==
    IF saved \notin {NoSavedMode, ""} THEN saved ELSE current

\* the mode after loadMode: the stored value when there is one and it is a
\* permission mode, else the mode as it was
Loaded(saved, current) ==
    IF saved \notin {NoSavedMode, ""} /\ saved \in PERMISSION_MODES
    THEN saved
    ELSE current

\* loadMode()
loadMode ==
    /\ modeChanges < MaxModeOps
    /\ modeChanges' = modeChanges + 1
    /\ mode' = Loaded(savedMode, mode)
    /\ opResult' = [kind |-> "loaded", id |-> 0, arg |-> savedMode]
    /\ UNCHANGED <<orchState, jsonMode, savedMode, loopVars, storeVars,
                   engHist, cpVars, clock>>

\* setMode(newMode): throws `Invalid permission mode` for a value that is
\* not a mode, else sets the mode and stores it
setMode(newMode) ==
    /\ modeChanges < MaxModeOps
    /\ modeChanges' = modeChanges + 1
    /\ IF newMode \notin PERMISSION_MODES
       THEN /\ opResult' = [kind |-> "invalidMode", id |-> 0,
                            arg |-> newMode]
            /\ UNCHANGED <<mode, savedMode>>
       ELSE /\ mode' = newMode
            /\ savedMode' = newMode
            /\ opResult' = [kind |-> "modeSet", id |-> 0, arg |-> newMode]
    /\ UNCHANGED <<orchState, jsonMode, loopVars, storeVars, engHist,
                   cpVars, clock>>

\* mutant: the new mode is not stored
cycleModeUnsaved ==
    /\ modeChanges < MaxModeOps
    /\ modeChanges' = modeChanges + 1
    /\ LET next == CASE mode = "default" -> "auto-edit"
                      [] mode = "auto-edit" -> "plan-only"
                      [] OTHER -> "default"
       IN  /\ mode' = next
           /\ UNCHANGED savedMode
           /\ opResult' = [kind |-> "cycled", id |-> 0, arg |-> next]
    /\ UNCHANGED <<orchState, jsonMode, loopVars, storeVars, engHist,
                   cpVars, clock>>

\* cycleMode(): setMode with the mode after the current one, returns it
cycleMode ==
    /\ modeChanges < MaxModeOps
    /\ modeChanges' = modeChanges + 1
    /\ LET next == CASE mode = "default" -> "auto-edit"
                      [] mode = "auto-edit" -> "plan-only"
                      [] OTHER -> "default"
       IN  /\ mode' = next
           /\ savedMode' = next
           /\ opResult' = [kind |-> "cycled", id |-> 0, arg |-> next]
    /\ UNCHANGED <<orchState, jsonMode, loopVars, storeVars, engHist,
                   cpVars, clock>>

\* new PermissionManager(config): mode default, then loadMode()
PermissionInit ==
    /\ Constructed
    /\ AgentsUnused
    /\ providerOrder = <<"gemini", "claude", "openai">>
    /\ cred = AllStored(providerOrder)
    /\ maxRetries = 1
    /\ retryDelayMs = DefaultRetryDelayMs
    /\ tickLimit = 0
    /\ EngineIdle
    /\ jsonMode = FALSE
    /\ savedMode \in SavedValues
    /\ mode = Loaded(savedMode, "default")

PermissionNext ==
    \/ loadMode
    \/ \E newMode \in SavedValues : setMode(newMode)
    \/ cycleMode

PermissionSpec == PermissionInit /\ [][PermissionNext]_vars

\* ========================================================================
\* Part 5: ContextManager over the messages table
\* ========================================================================
\* the roles the messages table accepts
MessageRoles == {"user", "assistant", "system"}

\* this.maxMessages, the window when getContext is given no limit
maxMessages == 50

\* getContext(limit): no limit (null), or a window of 2
NoLimit == 0
Limits == {NoLimit, 2}

\* what the retriever does with the query
RetrievalOutcomes == {"snippets", "none", "throws"}

\* Database.addMessage: a row is inserted, created_at is the current second
\* (the one of the row before, or a later one)
addMessage(role, later) ==
    /\ Len(messages) < MaxAppends
    /\ LET now == IF messages = <<>> THEN 0
                  ELSE messages[Len(messages)].created_at
                       + (IF later THEN 1 ELSE 0)
       IN  messages' = Append(messages,
                           [role |-> role, content |-> Len(messages) + 1,
                            created_at |-> now])
    /\ opResult' = [kind |-> "added", id |-> 0]
    /\ UNCHANGED <<orchState, permVars, loopVars, fs, checkpoints, engHist,
                   cpVars, clock>>

\* Database.getMessages: SELECT ... ORDER BY created_at DESC LIMIT ?. Every
\* list of rows the statement allows: newest first, rows of one second in
\* any order, and any of them at the cut
getMessages(limit) ==
    LET n == Len(messages)
        k == IF limit < n THEN limit ELSE n
    IN  { r \in [1..k -> 1..n] :
            /\ \A i, j \in 1..k : i < j =>
                  /\ r[i] # r[j]
                  /\ messages[r[i]].created_at >= messages[r[j]].created_at
            /\ \A m \in 1..n : (\A i \in 1..k : r[i] # m) =>
                  \A i \in 1..k :
                      messages[m].created_at <= messages[r[i]].created_at }

\* messages.reverse() and the mapping to role and content
Chronological(r) ==
    [i \in 1..Len(r) |->
        [role |-> messages[r[Len(r) + 1 - i]].role,
         content |-> messages[r[Len(r) + 1 - i]].content]]

\* the result of getContext for the rows r: the retriever is asked only
\* when a user message is among them, and its error is logged, not thrown
ContextOf(r, limit, retrieval) ==
    LET asked == \E i \in 1..Len(r) : messages[r[i]].role = "user"
    IN  [kind |-> "context", id |-> 0, limit |-> limit,
         messages |-> Chronological(r),
         retrieval |-> IF asked THEN retrieval ELSE "notCalled",
         relevantCode |-> IF asked /\ retrieval = "snippets"
                          THEN <<"snippet">> ELSE <<>>]

\* mutant: the error of the retriever is thrown to the caller
getContextRethrows(limit, retrieval) ==
    /\ IF messages = <<>>
       THEN opResult' = [kind |-> "context", id |-> 0, limit |-> limit,
                         messages |-> <<>>, retrieval |-> "notCalled"]
       ELSE \E r \in getMessages(IF limit = NoLimit THEN maxMessages
                                  ELSE limit) :
              opResult' = IF ContextOf(r, limit, retrieval).retrieval
                             = "throws"
                          THEN [kind |-> "error", id |-> 0]
                          ELSE ContextOf(r, limit, retrieval)
    /\ UNCHANGED <<orchState, permVars, loopVars, storeVars, engHist,
                   cpVars, clock>>

\* getContext(limit): without a conversation the empty list, else the
\* rows of the window in reversed order with the retrieved code
getContext(limit, retrieval) ==
    /\ IF messages = <<>>
       THEN opResult' = [kind |-> "context", id |-> 0, limit |-> limit,
                         messages |-> <<>>, retrieval |-> "notCalled"]
       ELSE \E r \in getMessages(IF limit = NoLimit THEN maxMessages
                                  ELSE limit) :
              opResult' = ContextOf(r, limit, retrieval)
    /\ UNCHANGED <<orchState, permVars, loopVars, storeVars, engHist,
                   cpVars, clock>>

\* new ContextManager(database): no conversation yet
ContextInit ==
    /\ Constructed
    /\ AgentsUnused
    /\ providerOrder = <<"gemini", "claude", "openai">>
    /\ cred = AllStored(providerOrder)
    /\ maxRetries = 1
    /\ retryDelayMs = DefaultRetryDelayMs
    /\ tickLimit = 0
    /\ EngineUnused

ContextNext ==
    \/ \E role \in MessageRoles, later \in BOOLEAN : addMessage(role, later)
    \/ \E limit \in Limits, retrieval \in RetrievalOutcomes :
          getContext(limit, retrieval)

ContextSpec == ContextInit /\ [][ContextNext]_vars

\* ========================================================================
\* Part 6: FileSystemTools._resolvePath on path strings
\* ========================================================================
\* names are strings, written as sequences of characters: the base
\* directory /p, a sibling /px whose name starts with the same characters,
\* another sibling /q, a file name and the parent entry
DirName == <<"p">>
SiblingName == <<"p", "x">>
OtherName == <<"q">>
FileName == <<"f">>
ParentEntry == <<".", ".">>
SegmentNames == {DirName, SiblingName, OtherName, FileName, ParentEntry}

\* this.baseDir, as the list of its segments
baseDir == <<DirName>>

\* the paths a tool call may carry: relative or absolute
PathArguments ==
    [absolute : BOOLEAN,
     segs : UNION { [1..n -> SegmentNames] : n \in 1..MaxSegments }]

\* path.resolve: the segments are applied from the left, `..` removes the
\* last one (the root has no parent)
RECURSIVE Normalize(_, _)
Normalize(at, segs) ==
    IF segs = <<>> THEN at
    ELSE Normalize(IF Head(segs) = ParentEntry
                   THEN (IF at = <<>> THEN at
                         ELSE SubSeq(at, 1, Len(at) - 1))
                   ELSE Append(at, Head(segs)),
                   Tail(segs))

resolve(arg) == Normalize(IF arg.absolute THEN <<>> ELSE baseDir, arg.segs)

\* the path string of a list of segments
RECURSIVE PathString(_)
PathString(segs) ==
    IF segs = <<>> THEN <<>>
    ELSE <<"/">> \o Head(segs) \o PathString(Tail(segs))

\* String.prototype.startsWith
startsWith(str, prefix) ==
    /\ Len(prefix) <= Len(str)
    /\ SubSeq(str, 1, Len(prefix)) = prefix

\* _resolvePath does not throw
PathAccepted(arg) ==
    startsWith(PathString(resolve(arg)), PathString(baseDir))

\* a file tool up to its file-system call: _resolvePath throws `Access
\* denied` inside the try block and nothing is touched, else the call is
\* made on the resolved path
FileToolResult(op, arg) ==
    IF PathAccepted(arg)
    THEN [kind |-> "touched", id |-> 0, op |-> op, arg |-> arg,
          target |-> resolve(arg)]
    ELSE [kind |-> "denied", id |-> 0, op |-> op, arg |-> arg,
          target |-> <<>>]

readFile(arg) ==
    /\ opResult' = FileToolResult("readFile", arg)
    /\ UNCHANGED <<orchState, permVars, loopVars, storeVars, engHist,
                   cpVars, clock>>

writeFile(arg) ==
    /\ opResult' = FileToolResult("writeFile", arg)
    /\ UNCHANGED <<orchState, permVars, loopVars, storeVars, engHist,
                   cpVars, clock>>

listDir(arg) ==
    /\ opResult' = FileToolResult("listDir", arg)
    /\ UNCHANGED <<orchState, permVars, loopVars, storeVars, engHist,
                   cpVars, clock>>

deleteFile(arg) ==
    /\ opResult' = FileToolResult("deleteFile", arg)
    /\ UNCHANGED <<orchState, permVars, loopVars, storeVars, engHist,
                   cpVars, clock>>

PathNext ==
    \E arg \in PathArguments :
        \/ readFile(arg)
        \/ writeFile(arg)
        \/ listDir(arg)
        \/ deleteFile(arg)

\* new FileSystemTools(baseDir)
PathSpec == ContextInit /\ [][PathNext]_vars

\* new AgentOrchestrator(engine), then execute(goal)
AgentInit ==
    /\ Constructed
    /\ providerOrder = <<"gemini", "claude", "openai">>
    /\ cred = AllStored(providerOrder)
    /\ maxRetries = 1
    /\ retryDelayMs = DefaultRetryDelayMs
    /\ tickLimit = 0
    /\ EngineIdle
    /\ mode = "default"
    /\ savedMode = mode
    /\ jsonMode \in BOOLEAN
    /\ AgentsIdle
    /\ execMode \in ExecutionModes

AgentNext ==
    \/ Execute
    \/ \E p \in Plans : PlannerReturns(p)
    \/ PlannerThrows
    \/ \E confirmed \in BOOLEAN : CommandConfirmed(confirmed)
    \/ \E ok \in BOOLEAN : CommandExits(ok)
    \/ \E applied \in BOOLEAN : FixDone(applied)
    \/ \E ok \in BOOLEAN : CodeGenerated(ok)
    \/ \E outcome \in ReviewOutcomes : ReviewDone(outcome)

AgentSpec == AgentInit /\ [][AgentNext]_vars

\* ========================================================================
\* Properties
\* ========================================================================
InCall == pc \notin {"idle", "done"}
Returned == pc = "done" /\ result.kind = "response"
Exhausted == pc = "done" /\ result.kind = "error"

\* the names of the slots a backend send was issued for, in slot order
RECURSIVE AttemptedFrom(_)
AttemptedFrom(s) ==
    IF s > Len(providerOrder) THEN <<>>
    ELSE IF issued[s] > 0 THEN <<providerOrder[s]>> \o AttemptedFrom(s + 1)
    ELSE AttemptedFrom(s + 1)

RECURSIVE SumTo(_, _)
SumTo(f, s) == IF s = 0 THEN 0 ELSE f[s] + SumTo(f, s - 1)

\* rows and events written since the call started
CallRows == SubSeq(apiLogs, rowsBefore + 1, Len(apiLogs))
CallEvents == SubSeq(failoverEvents, eventsBefore + 1, Len(failoverEvents))
CountRows(ok) ==
    Cardinality({i \in 1..Len(CallRows) : CallRows[i].success = ok})

\* ---- C1 ----------------------------------------------------------------
\* C1: a sendMessage call ends with the success response of the backend
\* that answered last, or with the aggregate error that lists every backend
\* attempted, in attempt order, and the message of the last error seen
C1_Outcome ==
    pc = "done" =>
        \/ /\ result.kind = "response"
           /\ result.resp.success
           /\ result.resp.provider \in providers
           /\ lastBackend = [provider |-> result.resp.provider, kind |-> "ok"]
        \/ /\ result.kind = "error"
           /\ Len(result.attempted) >= 1
           /\ result.attempted = AttemptedFrom(1)
           /\ lastBackend.kind \in FailureKinds
           /\ result.lastError = ErrorMessage(lastBackend.kind)

\* C1: every sendMessage call eventually ends, and it ends in one of the
\* two ways of C1_Outcome
C1_EventuallyEnds == [](C1_Outcome) /\ (InCall ~> pc = "done")

\* the aggregate error after three backends were attempted
C1_Witness ==
    /\ Exhausted
    /\ Len(result.attempted) = 3
    /\ result.lastError = ErrorMessage("throw")

\* ---- C2 ----------------------------------------------------------------
\* backend sends issued to the backend called name, over all slots
RECURSIVE IssuedTo(_, _)
IssuedTo(name, s) ==
    IF s = 0 THEN 0
    ELSE (IF providerOrder[s] = name THEN issued[s] ELSE 0)
         + IssuedTo(name, s - 1)

\* C2: within one call the backends are attempted in rank order, skipping
\* unavailable names, one send at a time, each backend at most maxRetries
\* times, and a backend only after every available backend ranked before it
\* failed exactly maxRetries times
C2_RankOrderRetries ==
    /\ inFlight <= 1
    /\ \A s \in Slots :
          issued[s] > 0 =>
             /\ providerOrder[s] \in providers
             /\ \A t \in 1..(s - 1) :
                   providerOrder[t] \in providers => failed[t] = maxRetries
    /\ \A n \in Names : IssuedTo(n, Len(providerOrder)) <= maxRetries

\* ---- C3 ----------------------------------------------------------------
\* C3: a success:false response and a thrown error take the same path: one
\* attempt is used, lastError is set, a success=false row is logged, nothing
\* is returned and the current provider stays; a response that is returned
\* has success = true
C3_SoftIsFailure ==
    /\ [][(pc = "awaitSend" /\ pc' # pc /\ lastBackend'.kind \in FailureKinds)
            => /\ pc' = "awaitLogFail"
               /\ failed'[slot] = failed[slot] + 1
               /\ apiLogs' = Append(apiLogs, ApiRow(providerOrder[slot], FALSE))
               /\ lastError' = ErrorMessage(lastBackend'.kind)
               /\ UNCHANGED <<result, currentProvider, failoverEvents, slot,
                              attempt, issued>>]_vars
    /\ [](Returned => result.resp.success)
    /\ [](\A s \in Slots : failed[s] <= issued[s] /\ issued[s] <= maxRetries)
    /\ [](pc = "done" => CountRows(FALSE) = SumTo(failed, Len(providerOrder)))

\* a call that returned a response after a soft failure
C3_Witness ==
    /\ Returned
    /\ lastError = ErrorMessage("soft")
    /\ CountRows(FALSE) >= 1

\* ---- C4 ----------------------------------------------------------------
\* the cap of the provider-level helper retryWithBackoff ("Max 10 seconds")
MaxBackoffMs == 10000

\* C4 as stated: the wait after failed attempt number attempt is
\* retryDelayMs * 2^attempt and never exceeds a fixed maximum
C4_DelayCapped ==
    pc = "sleeping" =>
        /\ delay = retryDelayMs * Pow2(attempt)
        /\ delay <= MaxBackoffMs

\* C4 amended: the wait after failed attempt number attempt is
\* retryDelayMs * 2^attempt without any cap, and there is a wait only after
\* the attempts 0 .. maxRetries - 2, so the longest wait of a backend is
\* retryDelayMs * 2^(maxRetries - 2)
C4_DelayUncapped ==
    /\ pc = "sleeping" =>
          /\ delay = retryDelayMs * Pow2(attempt)
          /\ attempt <= maxRetries - 2
          /\ delay <= retryDelayMs * Pow2(maxRetries - 2)
    /\ (pc = "awaitSend" /\ attempt > 0) =>
          delay = retryDelayMs * Pow2(attempt - 1)

\* a wait longer than the helper's cap
C4_Witness ==
    /\ pc = "sleeping"
    /\ attempt = 1
    /\ delay > MaxBackoffMs

\* ---- C5 ----------------------------------------------------------------
\* the step on which a call returns a response
ReturnsResponse == pc # "done" /\ pc' = "done" /\ result'.kind = "response"

\* the failover events a call that succeeded on backend b must have
\* written when from was the current provider
ExpectedEvents(from, b) ==
    IF b # from THEN <<FailoverRow(from, b)>> ELSE <<>>

\* C5 as stated: on success on backend B the current provider becomes B,
\* and one failover event (current provider at call start -> B) is logged
\* if and only if B differs from the provider current at call start
C5_FailoverIffChangedSinceStart ==
    /\ [][ReturnsResponse => currentProvider' = result'.resp.provider]_vars
    /\ [](Returned =>
            CallEvents = ExpectedEvents(startCurrent, result.resp.provider))

\* C5 amended: on success on backend B the current provider becomes B, and
\* one failover event (from, B) is logged if and only if B differs from
\* from, the provider that is current when B's success has been recorded;
\* from is the provider current at call start unless switchProvider was
\* accepted in the meantime
C5_FailoverIffChanged ==
    /\ [][ReturnsResponse => currentProvider' = result'.resp.provider]_vars
    /\ [](Returned =>
            CallEvents = ExpectedEvents(seenCurrent, result.resp.provider))
    /\ [](Returned /\ ~switchedInCall => seenCurrent = startCurrent)
    /\ []((InCall /\ pc # "awaitFailover") \/ Exhausted => CallEvents = <<>>)

\* a success on a backend other than the current one, with its event
C5_Witness ==
    /\ Returned
    /\ result.resp.provider # startCurrent
    /\ seenCurrent = startCurrent
    /\ CallEvents = <<FailoverRow(startCurrent, result.resp.provider)>>
    /\ currentProvider = result.resp.provider

\* ---- C6 ----------------------------------------------------------------
\* the primary fails all three attempts, the secondary succeeds at once
PrimaryFailsSecondarySucceeds ==
    /\ Returned
    /\ maxRetries = 3
    /\ providerOrder[1] \in providers
    /\ providerOrder[2] \in providers
    /\ failed[1] = 3
    /\ issued[2] = 1
    /\ failed[2] = 0

\* one row per attempt answered so far, failures with success=false
OneRowPerAttempt ==
    /\ Len(CallRows) = SumTo(issued, Len(providerOrder)) - inFlight
    /\ CountRows(FALSE) = SumTo(failed, Len(providerOrder))
    /\ pc = "done" => CountRows(TRUE) = (IF Returned THEN 1 ELSE 0)

\* C6 as stated: one call-log row per attempt; when the primary fails its
\* 3 attempts and the secondary succeeds at once, the secondary's response
\* is returned, 4 rows exist and exactly one failover event
\* {from: primary, to: secondary} is logged
C6_RowsAndFailoverEvent ==
    /\ OneRowPerAttempt
    /\ PrimaryFailsSecondarySucceeds =>
          /\ result.resp.provider = providerOrder[2]
          /\ Len(CallRows) = 4
          /\ CallEvents = <<FailoverRow(providerOrder[1], providerOrder[2])>>

\* C6 amended: one call-log row per attempt; in the scenario the
\* secondary's response is returned and 4 rows exist; one failover event
\* {from: the provider then current, to: secondary} is logged when that
\* provider differs from the secondary and none otherwise, so the event is
\* {from: primary, to: secondary} when the primary is still the current
\* provider and is a different backend than the secondary
C6_RowsAndFailoverEventIfCurrent ==
    /\ OneRowPerAttempt
    /\ PrimaryFailsSecondarySucceeds =>
          /\ result.resp.provider = providerOrder[2]
          /\ Len(CallRows) = 4
          /\ CallEvents = ExpectedEvents(seenCurrent, providerOrder[2])
          /\ (seenCurrent = providerOrder[1]
                /\ providerOrder[1] # providerOrder[2])
                => CallEvents =
                      <<FailoverRow(providerOrder[1], providerOrder[2])>>

\* the scenario on a fresh orchestrator
C6_Witness ==
    /\ PrimaryFailsSecondarySucceeds
    /\ startCurrent = providerOrder[1]
    /\ Len(CallRows) = 4
    /\ CallEvents = <<FailoverRow(providerOrder[1], providerOrder[2])>>

\* ---- C7 ----------------------------------------------------------------
\* C7: after switchProvider(X) was accepted, the first backend the next
\* sendMessage call attempts is X
C7_ActiveProviderFirst ==
    [][(callCount' = callCount + 1 /\ lastSwitch = "ok")
          => providerOrder[slot'] = currentProvider]_vars

\* ---- C8 ----------------------------------------------------------------
\* C8: switchProvider(name) raises an error and changes neither the
\* current provider nor the available set when name is not available;
\* otherwise the current provider becomes name and nothing else changes
C8_SwitchProviderFrame ==
    [][\A name \in Names :
          SwitchProvider(name) =>
             IF name \notin providers
             THEN /\ lastSwitch' = "error"
                  /\ UNCHANGED <<cfgVars, orchVars, healthVars, logVars,
                                 sendVars, histVars, switchedInCall>>
             ELSE /\ lastSwitch' = "ok"
                  /\ currentProvider' = name
                  /\ UNCHANGED <<cfgVars, phase, providers, healthVars,
                                 logVars, sendVars, histVars>>]_vars

\* a rejected switchProvider while a call is in flight
C8_Witness ==
    /\ lastSwitch = "error"
    /\ phase = "ready"
    /\ InCall
    /\ currentProvider \in providers
    /\ providers # { providerOrder[i] : i \in 1..Len(providerOrder) }

\* ---- C9 ----------------------------------------------------------------
Configured == { providerOrder[i] : i \in 1..Len(providerOrder) }

\* the highest-ranked name of a non-empty set of configured names
HighestRanked(set) ==
    providerOrder[CHOOSE i \in 1..Len(providerOrder) :
                     /\ providerOrder[i] \in set
                     /\ \A j \in 1..(i - 1) : providerOrder[j] \notin set]

\* what initialize must leave when the names of loaded are the backends
\* that could be loaded
InitializeLeaves(loaded) ==
    /\ providers' = loaded
    /\ phase' = (IF loaded = {} THEN "failed" ELSE "ready")
    /\ loaded # {} => currentProvider' = HighestRanked(loaded)

\* C9 as stated: a backend that is unknown, fails to initialize or has no
\* credential is omitted; initialize fails iff none is left; on success the
\* current provider is the highest-ranked backend left
C9_InitializeOmitsUnloadable ==
    [][phase = "new" =>
          InitializeLeaves({ n \in Configured :
                               n \in KnownProviders /\ cred[n] = "ok" })]_vars

\* C9 amended: as C9, except that ollama needs no credential: without one it
\* is loaded, and it is omitted only when loading it fails
C9_InitializeOmitsFailed ==
    [][phase = "new" =>
          InitializeLeaves({ n \in Configured :
                               /\ n \in KnownProviders
                               /\ \/ cred[n] = "ok"
                                  \/ n = "ollama" /\ cred[n] = "nokey" })]_vars

\* initialize succeeded although the primary could not be loaded
C9_Witness ==
    /\ phase = "ready"
    /\ callCount = 0
    /\ lastSwitch = "none"
    /\ cred[providerOrder[1]] = "fail"
    /\ providerOrder[1] \notin providers
    /\ currentProvider \in providers

\* ---- C10 ---------------------------------------------------------------
\* C10: a health check changes nothing but the healthy flag and
\* lastHealthCheck of the backend it probed: the available set, the rank
\* order and the current provider stay; sendMessage skips no available
\* backend, whatever its healthy flag
C10_HealthFlagOnly ==
    /\ [][(hcPos > 0 /\ hcPos' # hcPos) =>
            /\ UNCHANGED <<cfgVars, orchVars, logVars, sendVars, histVars,
                           lastSwitch, switchedInCall, tickCount>>
            /\ \A n \in Names :
                  n # MapKeys(providerOrder, providers, 1)[hcPos] =>
                     /\ healthy'[n] = healthy[n]
                     /\ lastHealthCheck'[n] = lastHealthCheck[n]]_vars
    /\ [](\A s \in Slots :
            issued[s] > 0 =>
               \A t \in 1..(s - 1) :
                  providerOrder[t] \in providers => failed[t] = maxRetries)
    /\ [](Exhausted =>
            \A s \in Slots :
               providerOrder[s] \in providers => issued[s] = maxRetries)

\* a backend whose health check failed is being attempted
C10_Witness ==
    /\ pc = "awaitSend"
    /\ providerOrder[slot] \in providers
    /\ ~healthy[providerOrder[slot]]
    /\ lastHealthCheck[providerOrder[slot]] > 0

\* ---- C11 ---------------------------------------------------------------
\* a step of the health-check timer callback: it starts, or one of its
\* probes finishes
HealthStep == tickCount' # tickCount \/ hcPos' # hcPos

\* C11: a step of the health-check timer, taken at whatever suspension
\* point of a sendMessage call in flight, leaves the available set, the
\* rank order, the current provider, the call log, the failover log and
\* every local of the call as they are, and the call's result is the one
\* the backends' answers alone determine
C11_TickInterleaves ==
    /\ [][HealthStep =>
            /\ providers' = providers
            /\ providerOrder' = providerOrder
            /\ currentProvider' = currentProvider
            /\ apiLogs' = apiLogs
            /\ failoverEvents' = failoverEvents
            /\ UNCHANGED <<sendVars, phase>>]_vars
    /\ [](tickedAt # {} => C1_Outcome)
    /\ [](tickedAt # {} /\ pc = "done" =>
            /\ Len(CallRows) = SumTo(issued, 3)
            /\ CountRows(FALSE) = SumTo(failed, 3))

\* a call that returned after the timer ran at each of its suspension
\* points
C11_Witness ==
    /\ Returned
    /\ tickedAt = SuspensionPoints

\* ========================================================================
\* Properties of the engine
\* ========================================================================
\* all tool calls of the round are resolved and _executeWithTools was called
\* again
RoundDone == epc = "callingBackend" /\ message = "null"

\* a tool call of the round is being handled
ToolStates == {"execTool", "checkpoint", "confirm", "batchPrompt", "addResult"}
InRound == epc \in ToolStates

\* the last n stored messages
LastMessages(n) == SubSeq(messages, Len(messages) - n + 1, Len(messages))

IsToolResult(m) == m.role = "system" /\ m.type = "tool_result"
IsWriteCall(c) == c.name = "write_file"
IsOtherCall(c) == c.name # "write_file"

\* the assistant message of the current round is stored
RoundLogged ==
    \E k \in 1..Len(messages) : messages[k] = AssistantMessage(toolCalls)

\* the stored messages end with the assistant message of the round followed
\* by one tool result per call of expected, in that order
RoundStoredAs(expected) ==
    /\ Len(expected) = Len(toolCalls)
    /\ Len(messages) > Len(toolCalls)
    /\ LET tail == LastMessages(Len(toolCalls) + 1)
       IN  /\ tail[1] = AssistantMessage(toolCalls)
           /\ \A q \in 1..Len(expected) :
                 /\ IsToolResult(tail[q + 1])
                 /\ tail[q + 1].toolCallId = expected[q].id
                 /\ tail[q + 1].toolName = expected[q].name

\* ---- C12 ---------------------------------------------------------------
\* C12 as stated: after every tool-calling round the stored messages end
\* with the assistant message followed by exactly one tool result per call,
\* in the order of the calls in the response
C12_ResultsInCallOrder == RoundDone => RoundStoredAs(toolCalls)

\* C12 amended: after every tool-calling round the stored messages end
\* with the assistant message followed by exactly one tool result per call:
\* first those of the calls other than write_file, in call order, then
\* those of the write_file calls, in call order
C12_ResultsOthersThenWrites ==
    RoundDone =>
        RoundStoredAs(SelectSeq(toolCalls, IsOtherCall)
                      \o SelectSeq(toolCalls, IsWriteCall))

\* a round whose response asked for a write before a delete
C12_Witness ==
    /\ RoundDone
    /\ Len(toolCalls) = 3
    /\ toolCalls[1].name = "write_file"
    /\ toolCalls[2].name = "delete_file"
    /\ messages[Len(messages) - 2].toolName = "delete_file"

\* ---- C13 ---------------------------------------------------------------
\* a step in which a tool of the round has an effect: a file or the
\* checkpoint table changes, or a tool result is stored
ToolEffect ==
    \/ fs' # fs
    \/ checkpoints' # checkpoints
    \/ /\ Len(messages') > Len(messages)
       /\ messages'[Len(messages')].role = "system"

\* C13: the assistant message of a round is stored before any tool of the
\* round has an effect or asks the user, and it is in the log whenever a
\* tool of the round is handled, also when the tool failed or the user
\* refused
C13_AssistantStoredFirst ==
    /\ [][ToolEffect => RoundLogged /\ RoundLogged']_vars
    /\ [](InRound => RoundLogged)
    /\ [](\A i \in 1..Len(started) :
            \E k \in 1..Len(messages) :
               /\ messages[k].role = "assistant"
               /\ \E j \in 1..Len(messages[k].toolCalls) :
                     messages[k].toolCalls[j].id = started[i])

\* the user refused a write: the request of the backend is in the log
C13_Witness ==
    /\ epc = "addResult"
    /\ toolResult = ErrorText("User cancelled file write")
    /\ RoundLogged
    /\ Len(messages) = 2

\* ---- C14 ---------------------------------------------------------------
\* the ids of the tool calls the backend has asked for in this turn
RequestedIds ==
    UNION { { messages[k].toolCalls[j].id :
                j \in 1..Len(messages[k].toolCalls) } :
            k \in { n \in 1..Len(messages) : messages[n].role = "assistant" } }

\* how many stored tool results carry the id
ResultsFor(id) ==
    Cardinality({ k \in 1..Len(messages) :
                    IsToolResult(messages[k]) /\ messages[k].toolCallId = id })

\* no turn is between a response and the end of its round
BetweenRounds == epc \in {"callingBackend", "terminal", "failed"}

\* C14: no tool call is executed twice, and every call of a round gets
\* exactly one tool result with its id: none before the call is handled,
\* one after, also when the call is skipped or cancelled without being
\* executed
C14_OnceAndOneResult ==
    /\ \A i, j \in 1..Len(started) : started[i] = started[j] => i = j
    /\ \A k \in 1..Len(messages) :
          IsToolResult(messages[k]) =>
             /\ messages[k].toolCallId \in RequestedIds
             /\ ResultsFor(messages[k].toolCallId) = 1
             /\ messages[k].content \in {SkippedText, CancelledText} =>
                   \A i \in 1..Len(started) :
                      started[i] # messages[k].toolCallId
    /\ BetweenRounds => \A id \in RequestedIds : ResultsFor(id) = 1
    /\ InRound =>
          \A q \in 1..Len(queue) :
             ResultsFor(toolCalls[queue[q]].id) = IF q < qpos THEN 1 ELSE 0

\* a round of three calls ended after the user chose to review each write
C14_Witness ==
    /\ RoundDone
    /\ Len(toolCalls) = 3
    /\ confirmBatchOperation(batchAnswer) = "review"
    /\ batchAnswer # "none"
    /\ Len(started) >= 3

\* ---- C15 ---------------------------------------------------------------
\* the last stored message
LastMessage == messages[Len(messages)]

\* processRequest has returned a value
Returned15 == turnResult.kind = "content"

\* the moves of the state machine of a turn; "failed" is the exception
\* that leaves processRequest without a value
TurnMove ==
    /\ epc = "awaitingUser" => epc' \in {"awaitingUser", "callingBackend"}
    /\ epc = "callingBackend" =>
          epc' \in {"callingBackend", "terminal", "failed"} \cup ToolStates
    /\ epc \in ToolStates => epc' \in ToolStates \cup {"callingBackend"}
    /\ epc \in {"terminal", "failed"} => epc' = epc

\* processRequest returns a value only in the step that stores a response
\* without tool calls
ReturnMove ==
    Returned15' /\ ~Returned15 =>
       /\ epc = "callingBackend"
       /\ epc' = "terminal"
       /\ messages' = Append(messages, AssistantMessage(<<>>))

\* a response with tool calls starts the tools of the round
ToolsMove ==
    epc = "callingBackend" /\ epc' \in ToolStates =>
       /\ toolCalls' # <<>>
       /\ messages' = Append(messages, AssistantMessage(toolCalls'))

AllResolved == \A id \in RequestedIds : ResultsFor(id) = 1

\* when the tools of a round are resolved the next backend call is made
\* with message null
RecurseMove ==
    epc \in ToolStates /\ epc' = "callingBackend" =>
       /\ message' = "null"
       /\ AllResolved'

\* C15: a turn moves AwaitingUserInput -> CallingBackend -> (Terminal |
\* ExecutingTools -> CallingBackend); processRequest returns a value only
\* in the step that stores a response without tool calls, a response with
\* tool calls starts the tools, and when the tools of a round are resolved
\* the next step is a backend call with message null
C15_TurnStateMachine ==
    /\ [][TurnMove /\ ReturnMove /\ ToolsMove /\ RecurseMove]_vars
    /\ [](epc = "terminal" <=> Returned15)
    /\ [](epc = "terminal" => LastMessage = AssistantMessage(<<>>))
    /\ [](epc = "callingBackend" =>
            message = IF rounds = 0 THEN "user" ELSE "null")

\* the turn returned after two rounds of tools
C15_Witness ==
    /\ epc = "terminal"
    /\ rounds = 2
    /\ Returned15

\* ---- C16 ---------------------------------------------------------------
\* the turn is over: processRequest returned or threw
TurnOver == epc \in {"terminal", "failed"}

\* the backend may answer with one more tool call
MoreToolsPossible == ENABLED BackendResponds(<<ReadA>>)

BatchEntered ==
    /\ batch = "none"
    /\ epc # "batchPrompt"
    /\ epc' = "batchPrompt" \/ batch' # "none"

\* the step in which the loop b of _executeBatchWrite has handled the last
\* write call of the round
BatchLeft(b) == batch = b /\ batch' = "none"

\* the round is over and the stored messages end with one result of the
\* given text per write_file call of the round, in call order
WritesResolvedAs(text) ==
    LET w == SelectSeq(toolCalls, IsWriteCall)
    IN  /\ RoundDone
        /\ Len(w) >= 2
        /\ Len(messages) > Len(w)
        /\ \A i \in 1..Len(w) :
              LastMessages(Len(w))[i] = ToolResultMessage(w[i], text)

\* nothing on disk, no checkpoint, no prompt and no execution
NothingDone == UNCHANGED <<fs, checkpoints, prompts, started>>

\* C17: a round with two or more write_file calls whose batch is entered
\* in plan-only mode shows no prompt and runs the skip loop; during that
\* loop no file and no checkpoint changes and nothing is executed, and at
\* its end every write call of the round has the result 'Skipped:
\* Plan-only mode'
C17_PlanOnlyBatchSkipped ==
    /\ [][BatchEntered /\ mode = "plan-only" =>
            batch' = "skip" /\ NothingDone]_vars
    /\ [][batch = "skip" \/ batch' = "skip" => NothingDone]_vars
    /\ [][BatchLeft("skip") => WritesResolvedAs(SkippedText)']_vars
    /\ [](batch = "skip" =>
            /\ batchMode = "plan-only"
            /\ epc = "addResult"
            /\ toolResult = SkippedText
            /\ IsWriteCall(CurrentCall))

\* two writes were skipped in plan-only mode and nothing has happened
C17_Witness ==
    /\ WritesResolvedAs(SkippedText)
    /\ batchMode = "plan-only"
    /\ mode = "plan-only"
    /\ Len(toolCalls) = 2
    /\ fs["a"] = OldContent /\ fs["b"] = Absent
    /\ checkpoints = <<>>
    /\ prompts = <<>>

\* ---- C18 ---------------------------------------------------------------
\* C18 as stated: while the permission mode is plan-only no step of a turn
\* changes a file, whatever the round contains
C18_PlanOnlyReadOnly == [][mode = "plan-only" => fs' = fs]_vars

\* ---- C19 ---------------------------------------------------------------
\* the answers that choose apply-all or review-each
ApplyOrReview == {"a", "A", "apply", "r", "R", "review"}

\* the step in which the user answers the batch prompt
BatchAnswerStep == epc = "batchPrompt" /\ epc' # "batchPrompt"

\* C19: the batch prompt is shown only for a batch entered in default
\* mode; an answer other than apply or review starts the cancel loop;
\* during that loop no file and no checkpoint changes, nothing is executed
\* and no prompt is shown; at its end every write call of the round has
\* the result 'Cancelled by user' and the next backend call is made
C19_CancelMutatesNothing ==
    /\ [](epc = "batchPrompt" => batchMode = "default" /\ ~jsonMode)
    /\ [][BatchAnswerStep /\ batchAnswer' \notin ApplyOrReview =>
            batch' = "cancel" /\ NothingDone]_vars
    /\ [][batch = "cancel" \/ batch' = "cancel" => NothingDone]_vars
    /\ [][BatchLeft("cancel") => WritesResolvedAs(CancelledText)']_vars
    /\ [](batch = "cancel" =>
            /\ batchAnswer \notin ApplyOrReview
            /\ epc = "addResult"
            /\ toolResult = CancelledText
            /\ IsWriteCall(CurrentCall))

\* the user answered "yes" to the batch prompt: both writes are cancelled,
\* the files are as before and the backend is called again
C19_Witness ==
    /\ WritesResolvedAs(CancelledText)
    /\ batchAnswer = "yes"
    /\ Len(toolCalls) = 2
    /\ fs["a"] = OldContent /\ fs["b"] = Absent
    /\ checkpoints = <<>>
    /\ prompts = <<[kind |-> "batch", id |-> 0]>>

\* ---- C20 ---------------------------------------------------------------
\* C20 as stated: while the permission mode is auto-edit no prompt is
\* shown, neither the batch prompt nor the prompt of a single file
C20_AutoEditNeverPrompts == [][mode = "auto-edit" => prompts' = prompts]_vars

\* ---- C21 ---------------------------------------------------------------
\* a step of writeFile that changes the file of the call
WriteMutates == epc \in {"checkpoint", "confirm"} /\ fs' # fs

\* the newest checkpoint was stored by the writeFile of the current call
\* and records what the file of the call was before the step
CheckpointedFirst ==
    /\ cpCall' = CurrentCall.id
    /\ checkpoints' # <<>>
    /\ LET row == checkpoints'[Len(checkpoints')]
       IN  /\ row.filePath = CurrentCall.path
           /\ row.content = fs[CurrentCall.path]
           /\ row.fileExists = (fs[CurrentCall.path] # Absent)

\* C21 as stated: whenever writeFile changes a file, a checkpoint of the
\* file's state before the write was stored earlier in the same call
C21_CheckpointBeforeEveryWrite == [][WriteMutates => CheckpointedFirst]_vars

\* ---- C22 ---------------------------------------------------------------
\* what _executeTool returns when the user refuses the write
DeclinedText == ErrorText("User cancelled file write")

\* the step in which the user refuses the write at the prompt of writeFile
DeclineStep ==
    /\ epc = "confirm"
    /\ epc' = "addResult"
    /\ toolResult' # WrittenText

\* the refused write is the call being recorded
DeclinePending == epc = "addResult" /\ toolResult = DeclinedText

\* the step that records the refused write
DeclineRecorded == DeclinePending /\ messages' # messages

\* C22 as stated: a refused write leaves the file and the checkpoints as
\* they are and is recorded with the result 'Cancelled by user'
C22_DeclineRecordedCancelled ==
    [][DeclineStep =>
          toolResult' = CancelledText /\ UNCHANGED <<fs, checkpoints>>]_vars

\* the refusal leaves the file and the checkpoint table alone and resolves
\* the call with the error text of writeFile
DeclineMove ==
    DeclineStep => toolResult' = DeclinedText /\ UNCHANGED <<fs, checkpoints>>

\* the refused call is recorded with that text and the round goes on: the
\* next call of the round, or the next backend call with message null
DeclineRecordedMove ==
    DeclineRecorded =>
       /\ messages' = Append(messages,
                             ToolResultMessage(CurrentCall, DeclinedText))
       /\ UNCHANGED <<fs, checkpoints>>
       /\ epc' \in ToolStates \cup {"callingBackend"}
       /\ Len(writeOperations(toolCalls)) = 1 => RoundDone'

\* C22 amended: a refused write raises 'User cancelled file write'; the
\* file and the checkpoint table, which already holds the checkpoint taken
\* before the prompt when it could be stored, stay as they are; the call
\* is recorded with the error text 'Error: Failed to write file ...: User
\* cancelled file write', not with 'Cancelled by user'; processRequest
\* does not fail and the round goes on to the next backend call
C22_DeclineRecordedAsError ==
    /\ [][DeclineMove /\ DeclineRecordedMove]_vars
    /\ [](DeclinePending =>
            /\ turnResult.kind = "none"
            /\ IsWriteCall(CurrentCall)
            /\ AsksConfirmation(skipConfirmation))

\* a single write in default mode was refused after its checkpoint was
\* stored; the refusal is recorded and the backend is called again
C22_Witness ==
    /\ RoundDone
    /\ mode = "default"
    /\ Len(toolCalls) = 1
    /\ IsWriteCall(toolCalls[1])
    /\ messages[Len(messages)] = ToolResultMessage(toolCalls[1], DeclinedText)
    /\ Len(checkpoints) = 1
    /\ fs["a"] = OldContent /\ fs["b"] = Absent

\* ---- C23 ---------------------------------------------------------------
\* the call being handled cannot succeed: the tool does not exist, the
\* path is outside the base directory or the file to read or delete is
\* missing
CannotSucceed(call) ==
    \/ call.name \notin ToolNames
    \/ ~InsideBase(call.path)
    \/ call.name \in {"read_file", "delete_file"} /\ fs[call.path] = Absent

\* the step in which the execution of the current call ends
ExecutionEnds == epc \in {"execTool", "checkpoint", "confirm"}
                 /\ epc' \notin {"execTool", "checkpoint", "confirm"}

\* a call that cannot succeed, and any other failure, ends in a result
\* that starts with 'Error: ', never in a failure of processRequest
FailureMove ==
    /\ epc = "execTool" /\ CannotSucceed(CurrentCall) /\ epc' # epc =>
          epc' = "addResult" /\ toolResult'.error
    /\ ExecutionEnds =>
          epc' = "addResult" /\ turnResult' = turnResult
    /\ epc \in ToolStates => epc' # "failed"

\* the error result is stored for the call that failed and the round goes
\* on with the next call, or after the last call with the backend
ErrorRecordedMove ==
    epc = "addResult" /\ toolResult.error /\ messages' # messages =>
       /\ messages' = Append(messages,
                             ToolResultMessage(CurrentCall, toolResult))
       /\ IF qpos < Len(queue)
          THEN qpos' = qpos + 1 /\ epc' \in ToolStates
          ELSE RoundDone'

\* C23: a tool call that fails (missing file, path outside the base
\* directory, unknown tool) does not make processRequest fail: the call
\* gets a result that starts with 'Error: ', stored under its id, and the
\* round goes on with the remaining calls and the next backend call
C23_ToolErrorsBecomeResults ==
    /\ [][FailureMove /\ ErrorRecordedMove]_vars
    /\ [](epc = "addResult" /\ ~InsideBase(CurrentCall.path)
                            /\ batch \notin {"skip", "cancel"}
            => toolResult.error)
    /\ [](epc = "failed" => turnResult.kind = "error")

\* a round of an unknown tool and a read outside the base directory is
\* over: both calls have an error result
C23_Witness ==
    /\ RoundDone
    /\ toolCalls[1].name = "run_command"
    /\ Len(toolCalls) = 2
    /\ LastMessages(2)[1].content = ErrorText("Unknown tool")
    /\ LastMessages(2)[2].content = ErrorText("Access denied")

\* ---- C24 ---------------------------------------------------------------
\* the write_file calls of the round, in call order
RoundWrites == SelectSeq(toolCalls, IsWriteCall)

\* the entries pushed so far are those of the first writes of the round,
\* in call order
ResultsInCallOrder ==
    /\ Len(results) <= Len(RoundWrites)
    /\ \A i \in 1..Len(results) : results[i].path = RoundWrites[i].path

\* the batch is over: one entry and one stored result per write, in call
\* order, success being that the write did not fail
ApplyAllRecorded ==
    /\ RoundDone
    /\ Len(results) = Len(RoundWrites)
    /\ ResultsInCallOrder
    /\ \A i \in 1..Len(RoundWrites) :
          LET m == LastMessages(Len(RoundWrites))[i]
          IN  /\ m.toolCallId = RoundWrites[i].id
              /\ results[i].success = ~m.content.error

\* apply-all handles the writes in call order with one entry each, and a
\* write that fails neither stops the loop nor touches another file
ApplyAllMove ==
    /\ BatchLeft("apply") => ApplyAllRecorded'
    /\ batch = "apply" /\ epc = "addResult" /\ toolResult.error =>
          fs' = fs /\ epc' # "failed"

\* C24 as stated: apply-all handles the writes one at a time in call
\* order, stores a checkpoint before each write that changes a file, pushes
\* one {path, success} entry per write, and goes on after a failed write
\* without undoing the others
C24_ApplyAllCheckpointsEach ==
    /\ [][ApplyAllMove]_vars
    /\ [](batch = "apply" => ResultsInCallOrder)
    /\ [][batch = "apply" /\ WriteMutates => CheckpointedFirst]_vars

\* what of C24 holds: everything but the checkpoint before each write
C24_ApplyAllOrderAndResults ==
    /\ [][ApplyAllMove]_vars
    /\ [](batch = "apply" => ResultsInCallOrder)

\* ------------------------------------------------------------------------
\* C25: whatever a file was when createCheckpoint was called (absent, or
\* holding some content, the empty one included), and whatever was written
\* to it afterwards, revertToCheckpoint with the id that call returned puts
\* the file back into that state and touches no other file.
RevertedRow == getCheckpoint(opResult'.id)

RoundTripMove ==
    opResult'.kind = "restored" =>
        /\ fs'[RevertedRow.filePath] = cpPre[opResult'.id]
        /\ \A p \in BasePaths \ {RevertedRow.filePath} : fs'[p] = fs[p]

RevertEnds == opResult'.kind \in {"restored", "notFound"}

NoSuchCheckpoint(id) == \A k \in 1..Len(checkpoints) : checkpoints[k].id # id

NotFoundMove ==
    (RevertEnds /\ NoSuchCheckpoint(opResult'.id)) =>
        /\ opResult'.kind = "notFound"
        /\ fs' = fs
        /\ checkpoints' = checkpoints

C26_UnknownIdNotFound == [][NotFoundMove]_vars

\* the id was issued, the maintenance deleted its row, the revert failed
C26_Witness ==
    /\ opResult.kind = "notFound"
    /\ opResult.id < cpNext
    /\ NoSuchCheckpoint(opResult.id)

\* ------------------------------------------------------------------------
\* C27 (as stated): the store is append-only and createCheckpoint always
\* succeeds: every call adds a new record.
CreateEnds == opResult'.kind \in {"checkpointId", "error"}

RowAdded ==
    /\ opResult'.kind = "checkpointId"
    /\ NoSuchCheckpoint(opResult'.id)
    /\ Len(checkpoints') = Len(checkpoints) + 1
    /\ SubSeq(checkpoints', 1, Len(checkpoints)) = checkpoints
    /\ checkpoints'[Len(checkpoints')].id = opResult'.id

RowsOf(rows) == { rows[k] : k \in 1..Len(rows) }

\* rows are never modified: what is left was there, or has a new id
NeverModified ==
    \A row \in RowsOf(checkpoints') :
        row \in RowsOf(checkpoints) \/ NoSuchCheckpoint(row.id)

\* nothing but createCheckpoint adds rows
OnlyCreateAdds ==
    CreateEnds \/ RowsOf(checkpoints') \subseteq RowsOf(checkpoints)

\* nothing but clearOldCheckpoints removes rows, and only old ones
OnlyMaintenanceRemoves ==
    \A row \in RowsOf(checkpoints) \ RowsOf(checkpoints') :
        /\ opResult'.kind = "cleared"
        /\ row.timestamp < clock - RetentionHours

AppendOnlyMove == NeverModified /\ OnlyCreateAdds /\ OnlyMaintenanceRemoves

C27_CreateAlwaysSucceeds ==
    [][AppendOnlyMove /\ (CreateEnds => RowAdded)]_vars

\* C27 (amended): createCheckpoint adds a new record, for a file that
\* exists and for one that does not, whenever the database stores the row,
\* and throws leaving the store as it was when the database rejects it;
\* writes and reverts never modify or remove a record, a revert creates
\* none, and only clearOldCheckpoints removes records, those older than
\* 24 hours.
CreateMove ==
    CreateEnds =>
        \/ RowAdded
        \/ opResult'.kind = "error" /\ checkpoints' = checkpoints

C27_AppendOnlyStore == [][AppendOnlyMove /\ CreateMove]_vars

\* the maintenance removed the old record and kept the one of a file
\* that did not exist
C27_Witness ==
    /\ opResult.kind = "cleared"
    /\ cpNext = 3
    /\ Len(checkpoints) = 1
    /\ checkpoints[1].id = 2
    /\ ~checkpoints[1].fileExists

\* ------------------------------------------------------------------------
\* C28: after any sequence of loadMode, setMode and cycleMode the mode is
\* one of default, auto-edit, plan-only; setMode with another value raises
\* the error and changes neither the mode nor the stored setting; loadMode
\* ignores a stored value that is not a mode, and the mode is default as
\* long as such a value is stored.
ModeValid ==
    /\ mode \in PERMISSION_MODES
    /\ savedMode \notin PERMISSION_MODES => mode = "default"

InvalidSetMove ==
    (opResult'.kind \in {"modeSet", "invalidMode"}
        /\ opResult'.arg \notin PERMISSION_MODES) =>
        /\ opResult'.kind = "invalidMode"
        /\ mode' = mode
        /\ savedMode' = savedMode

InvalidLoadMove ==
    (opResult'.kind = "loaded" /\ savedMode \notin PERMISSION_MODES) =>
        /\ mode' = mode
        /\ savedMode' = savedMode

C28_ModeAlwaysValid ==
    []ModeValid /\ [][InvalidSetMove /\ InvalidLoadMove]_vars

\* the mode was cycled to auto-edit and an invalid setMode left it there
C28_Witness ==
    /\ opResult.kind = "invalidMode"
    /\ opResult.arg = "admin"
    /\ mode = "auto-edit"
    /\ savedMode = "auto-edit"

\* ------------------------------------------------------------------------
\* C29: getContext returns the most recent messages of the window in
\* exactly the order they were appended, also when appends have equal
\* creation timestamps.
Window(limit) ==
    LET n == Len(messages)
        k == IF limit # NoLimit /\ limit < n THEN limit ELSE n
    IN  [i \in 1..k |-> [role |-> messages[n - k + i].role,
                         content |-> messages[n - k + i].content]]

C29_ContextInAppendOrder ==
    opResult.kind = "context" => opResult.messages = Window(opResult.limit)

\* ------------------------------------------------------------------------
\* C30: getContext never fails because of the retrieval: when the
\* retriever finds nothing or throws, the result holds the messages of the
\* conversation (as many as the window allows) and an empty list of code.
ConversationMessages ==
    { [role |-> messages[i].role, content |-> messages[i].content] :
        i \in 1..Len(messages) }

C30_RetrievalNeverFailsContext ==
    /\ opResult.kind # "error"
    /\ (opResult.kind = "context"
           /\ opResult.retrieval \in {"none", "throws"}) =>
          /\ opResult.relevantCode = <<>>
          /\ Len(opResult.messages) = Len(Window(opResult.limit))
          /\ \A i \in 1..Len(opResult.messages) :
                opResult.messages[i] \in ConversationMessages

\* the retriever threw and the context holds the three messages
C30_Witness ==
    /\ opResult.kind = "context"
    /\ opResult.retrieval = "throws"
    /\ Len(opResult.messages) = 3
    /\ opResult.relevantCode = <<>>

\* ------------------------------------------------------------------------
\* C32: while the calls of a round are handled, _executeBatchWrite (its
\* prompt or one of its loops) is running exactly when the call at hand is
\* a write_file call of a round with two or more of them; the single
\* write_file call of a round and every other call are handled by the
\* single-tool path; the batch prompt is shown at most once per round.
InBatch == batch # "none" \/ epc = "batchPrompt"

IsBatchPrompt(p) == p.kind = "batch"

C32_BatchIffSeveralWrites ==
    /\ InRound =>
          (InBatch <=> IsWriteCall(CurrentCall) /\ Len(RoundWrites) >= 2)
    /\ Len(SelectSeq(prompts, IsBatchPrompt)) <= rounds

\* a round of two writes and a delete has reached the batch prompt after
\* the delete was handled without it
C32_Witness ==
    /\ epc = "batchPrompt"
    /\ Len(toolCalls) = 3
    /\ Len(RoundWrites) = 2
    /\ Len(started) = 1
    /\ rounds = 1

\* ------------------------------------------------------------------------
\* C33: the tool calls of a turn are executed one after the other: at most
\* one started call is without its stored tool result, it is the call at
\* hand, and a call is started only when every call started before it has
\* its result stored; this holds for the writes of a batch as well.
Executing == { i \in 1..Len(started) : ResultsFor(started[i]) = 0 }

OneAtATime ==
    /\ Cardinality(Executing) <= 1
    /\ \A i \in Executing :
          /\ i = Len(started)
          /\ InRound
          /\ started[i] = CurrentCall.id

StartsAfterPrevious ==
    started' # started =>
        /\ Len(started') = Len(started) + 1
        /\ \A i \in 1..Len(started) :
              Cardinality({ k \in 1..Len(messages') :
                  /\ IsToolResult(messages'[k])
                  /\ messages'[k].toolCallId = started[i] }) = 1

C33_ToolsRunSequentially == []OneAtATime /\ [][StartsAfterPrevious]_vars

\* the second write of an apply-all batch is running, the first has its
\* result
C33_Witness ==
    /\ batch = "apply"
    /\ epc = "checkpoint"
    /\ Len(started) = 2
    /\ ResultsFor(started[1]) = 1
    /\ IsWriteCall(CallAt(toolCalls, queue, qpos - 1))

\* ------------------------------------------------------------------------
\* C34: in a review-each batch every write call is handled by the
\* single-write path on its own: each file inside the base directory is
\* offered at the prompt of writeFile whatever happened to the files before
\* it, a confirmed file is written and a refused one is left alone, and
\* each call gets one result of its own: written, the error of the refusal
\* or the error of the failed write.
ReviewChosen == confirmBatchOperation(batchAnswer) = "review"

ResultTexts(id) ==
    { messages[k].content : k \in { n \in 1..Len(messages) :
        IsToolResult(messages[n]) /\ messages[n].toolCallId = id } }

Offered(id) ==
    \E k \in 1..Len(prompts) : prompts[k] = [kind |-> "file", id |-> id]

ReviewedAll ==
    \A i \in 1..Len(RoundWrites) :
        LET w == RoundWrites[i]
        IN  /\ ResultsFor(w.id) = 1
            /\ IF InsideBase(w.path)
               THEN /\ Offered(w.id)
                    /\ ResultTexts(w.id) \subseteq {WrittenText, DeclinedText}
               ELSE ResultTexts(w.id) = {ErrorText("Access denied")}

ReviewConfirmMove ==
    (batch = "review" /\ epc = "confirm" /\ epc' # "confirm") =>
        \/ /\ toolResult' = WrittenText
           /\ fs' = Written(CurrentCall.path, NewContent)
        \/ /\ toolResult' = DeclinedText
           /\ fs' = fs

C34_ReviewEachIndependent ==
    /\ []((ReviewChosen /\ epc = "callingBackend") => ReviewedAll)
    /\ [][ReviewConfirmMove]_vars

\* the review of two files is over: the first was refused, the second was
\* offered all the same and written
C34_Witness ==
    /\ ReviewChosen
    /\ epc = "callingBackend"
    /\ Len(RoundWrites) = 2
    /\ ResultTexts(RoundWrites[1].id) = {DeclinedText}
    /\ ResultTexts(RoundWrites[2].id) = {WrittenText}
    /\ fs[RoundWrites[2].path] = NewContent

\* ------------------------------------------------------------------------
\* C40: writeFile stores the checkpoint before it asks, so when the user
\* refuses a single write the newest checkpoint is the one of this call; it
\* records the file as it still is, the file is not changed by the refusal
\* (there is one more checkpoint than writes that changed a file), and
\* reverting to it would change nothing.
DeclinedSingle == DeclineStep /\ batch = "none"

DeclinedCheckpointKept ==
    /\ fs' = fs
    /\ checkpoints' = checkpoints
    /\ cpCall = CurrentCall.id
    /\ checkpoints # <<>>
    /\ LET row == checkpoints[Len(checkpoints)]
       IN  /\ row.filePath = CurrentCall.path
           /\ row.content = fs[CurrentCall.path]
           /\ Restored(row) = fs

C40_DeclinedWriteKeepsCheckpoint ==
    [][DeclinedSingle => DeclinedCheckpointKept]_vars

\* ------------------------------------------------------------------------
\* C35: a file tool touches only paths inside the base directory: whatever
\* the argument (with `..`, absolute, or naming a sibling whose name starts
\* like the base directory's), the path the file-system call is made on is
\* the base directory or lies below it; otherwise the tool fails with
\* `Access denied` and touches nothing.
IsInside(segs) ==
    /\ Len(segs) >= Len(baseDir)
    /\ SubSeq(segs, 1, Len(baseDir)) = baseDir

C35_OnlyInsideBase ==
    /\ opResult.kind = "touched" => IsInside(opResult.target)
    /\ opResult.kind = "denied" => ~IsInside(resolve(opResult.arg))

\* ------------------------------------------------------------------------
\* C37: cycleMode moves the mode along default -> auto-edit -> plan-only
\* -> default, stores the new mode and returns it; from every mode three
\* steps of the cycle lead back to it.
ModeAfter(m) ==
    IF m = "default" THEN "auto-edit"
    ELSE IF m = "auto-edit" THEN "plan-only"
    ELSE IF m = "plan-only" THEN "default"
    ELSE "none"

CycleMove ==
    opResult'.kind = "cycled" =>
        /\ mode' = ModeAfter(mode)
        /\ mode' \in PERMISSION_MODES
        /\ savedMode' = mode'
        /\ opResult'.arg = mode'

C37_CycleOfThree ==
    /\ [][CycleMove]_vars
    /\ [](ModeAfter(ModeAfter(ModeAfter(mode))) = mode)

\* the third call of cycleMode has brought the mode back to default
C37_Witness ==
    /\ opResult.kind = "cycled"
    /\ opResult.arg = "default"
    /\ modeChanges = 3
    /\ mode = "default"
    /\ savedMode = "default"

\* ------------------------------------------------------------------------
\* C38: once initialize has succeeded, the current provider is a key of
\* this.providers in every state reached by sendMessage calls that succeed
\* or exhaust the backends, switchProvider calls that are accepted or
\* rejected, and health-check ticks.
C38_CurrentProviderAvailable ==
    phase = "ready" => currentProvider \in providers

\* gemini was not loaded; a switch was rejected, a sendMessage call has
\* exhausted the backends and a health-check tick has finished
C38_Witness ==
    /\ phase = "ready"
    /\ "gemini" \notin providers
    /\ lastSwitch = "error"
    /\ result.kind = "error"
    /\ tickCount = 1
    /\ hcPos = 0
    /\ currentProvider \in providers

\* ------------------------------------------------------------------------
\* C39: when a sendMessage call has thrown the aggregate error, the call
\* has not changed the current provider, has logged no failover event, and
\* has added one success=false row per attempt and no other row:
\* |available backends| x maxRetries rows.
C39_ExhaustionFrame ==
    Exhausted =>
        /\ ~switchedInCall => currentProvider = startCurrent
        /\ CallEvents = <<>>
        /\ CountRows(TRUE) = 0
        /\ Len(CallRows) = Cardinality(providers) * maxRetries

\* ------------------------------------------------------------------------
\* C31: a command step whose text includes a blocklisted pattern is never
\* handed to a shell, whatever the execution mode and at every retry of
\* the step, and what coder.act returns for it is the failure `Command
\* blocked for safety`.
\* ------------------------------------------------------------------------
DangerousStep ==
    /\ stepIdx > 0
    /\ plan[stepIdx].type = "command"
    /\ Blocked(plan[stepIdx].details)

ActReturned == apc = "review"

FailedToComplete ==
    workflow = [kind |-> "threw", error |-> "Failed to complete step"]

StepsBounded ==
    \A k \in DOMAIN coderRuns :
        /\ coderRuns[k] <= AttemptLimit
        /\ k > 1 /\ coderRuns[k] > 0 => approved[k - 1]

WorkflowOutcome ==
    /\ FailedToComplete <=>
           \E k \in DOMAIN rejections : rejections[k] >= AttemptLimit
    /\ workflow.kind = "returned" => \A k \in DOMAIN approved : approved[k]

PlanOrder ==
    /\ stepIdx' \in {stepIdx, stepIdx + 1}
    /\ stepIdx' = stepIdx + 1 => stepIdx = 0 \/ approved'[stepIdx]

C36_StepsInOrderUntilApproved ==
    /\ [](StepsBounded /\ WorkflowOutcome)
    /\ [][PlanOrder]_vars

C36_Witness ==
    /\ FailedToComplete
    /\ Len(plan) = 2
    /\ approved[1]
    /\ coderRuns = <<AttemptLimit, AttemptLimit>>
    /\ rejections = <<AttemptLimit - 1, AttemptLimit>>


====
